---- MODULE Spec2Model ----
(***************************************************************************)
(* A model of the tensor-decomposition core of PyTensor: the tensor        *)
(* algebra of base.py (unfold/fold, flatten/unflatten, Khatri-Rao, MTTKRP),*)
(* the KruskalTensor object, and the fit loop of the decomposers.          *)
(*                                                                         *)
(* Arrays are records [shape, data]: shape is the tuple of dimensions and  *)
(* data the entries in C (row-major) order, which is the order numpy's     *)
(* reshape and ravel read and write.  Entries are integers, so every       *)
(* product and sum is exact.  Python indices are 0-based and may be        *)
(* negative; TLA+ sequences are 1-based, the operators below translate.    *)
(***************************************************************************)
EXTENDS Integers, Sequences, FiniteSets, TLC

VARIABLES
    T,          \* the array handed to unfold / matrix_khatri_rao_product
    factors,    \* the caller's list of factor matrices
    mode,       \* the mode / skip argument (Python index, may be negative)
    M,          \* the matrix produced by the last unfold
    out,        \* the value returned by the last call
    step,       \* which call was made last
    weights_arg,\* the weights argument of KruskalTensor(...) / ktensor(...)
    kt,         \* the KruskalTensor object, or None
    raised,     \* the exception the last call raised, or "none"
    calls,      \* number of method calls made on the object
    driver,     \* the decomposer class: "CP_ALS", "BlockParafac2" or "Legacy"
    X,          \* self.X, the target (0: the attribute is not set yet)
    decomposition,          \* self.decomposition, or None
    current_iteration,      \* self.current_iteration (-1: not set yet)
    max_its,                \* self.max_its
    checkpoint_frequency,   \* self.checkpoint_frequency (-1 when None was given)
    convergence_tol,        \* self.convergence_tol, a fraction <<num, den>>
    prev_SSE,               \* self.prev_SSE / self.prev_loss
    rel_function_change,    \* self._rel_function_change
    store,      \* the checkpoint file: its attributes and its groups
    writes,     \* the store_checkpoint calls that wrote a group, in order
    loggers,    \* self.loggers: for each logger the calls it has received
    pc,         \* "idle", "loop" (inside _fit), "returned" or "raised"
    it,         \* the loop variable of _fit (-1: not bound yet)
    loop_n,     \* the length of the range _fit iterates over
    call        \* the fit / continue_fit call in progress or last made

algVars == <<T, factors, mode, M, out, step>>

ktVars == <<weights_arg, kt, raised, calls>>

fitVars == <<driver, X, decomposition, current_iteration, max_its,
             checkpoint_frequency, convergence_tol, prev_SSE,
             rel_function_change, store, writes, loggers, pc, it, loop_n, call>>

vars == <<T, factors, mode, M, out, step, weights_arg, kt, raised, calls,
          driver, X, decomposition, current_iteration, max_its,
          checkpoint_frequency, convergence_tol, prev_SSE,
          rel_function_change, store, writes, loggers, pc, it, loop_n, call>>

----------------------------------------------------------------------------
(* Bounds of the model *)

MaxModes == 4   \* arrays have 1..MaxModes modes
MaxDim == 2     \* every mode has length 1..MaxDim
MaxRank == 2    \* factor matrices have 1..MaxRank columns
MaxCalls == 3   \* method calls made on one KruskalTensor object
MaxIts == 3     \* max_its ranges over 0..MaxIts
MaxFreq == 2    \* checkpoint_frequency ranges over 1..MaxFreq, or is None
MaxSSE == 2     \* the error after a sweep ranges over 1..MaxSSE
MaxFitCalls == 2    \* fit / continue_fit calls made on one decomposer
MaxAdmmIt == 2  \* ADMMSubproblem.max_it ranges over 0..MaxAdmmIt
NumLoggers == 2 \* loggers handed to a decomposer

----------------------------------------------------------------------------
(* Python and numpy primitives *)

None == [none |-> TRUE]

RECURSIVE Prod(_)
Prod(s) == IF s = <<>> THEN 1 ELSE Head(s) * Prod(Tail(s))

RECURSIVE Sum(_)
Sum(s) == IF s = <<>> THEN 0 ELSE Head(s) + Sum(Tail(s))

\* seq[i] with Python's index rule (negative indices count from the end)
PyIndex(i, len) == IF i < 0 THEN i + len ELSE i

At(s, i) == s[PyIndex(i, Len(s)) + 1]

\* list.pop(i): the list without its i-th entry
ListPop(s, i) ==
    LET k == PyIndex(i, Len(s)) + 1
    IN  [j \in 1..(Len(s) - 1) |-> IF j < k THEN s[j] ELSE s[j + 1]]

\* list.insert(i, x) for 0 <= i <= len
ListInsert(s, i, x) ==
    [j \in 1..(Len(s) + 1) |->
        IF j < i + 1 THEN s[j] ELSE IF j = i + 1 THEN x ELSE s[j - 1]]

\* s[a:b] for 0 <= a <= b <= len
Slice(s, a, b) == [j \in 1..(b - a) |-> s[a + j]]

Size(A) == Prod(A.shape)

Ndim(A) == Len(A.shape)

\* The multi-index (0-based) of the flat C-order position p (0-based)
RECURSIVE Unravel(_, _)
Unravel(p, shape) ==
    IF shape = <<>> THEN <<>>
    ELSE LET rest == Prod(Tail(shape))
         IN  <<p \div rest>> \o Unravel(p % rest, Tail(shape))

\* The flat C-order position (0-based) of a multi-index
RECURSIVE Ravel(_, _)
Ravel(idx, shape) ==
    IF shape = <<>> THEN 0
    ELSE Head(idx) * Prod(Tail(shape)) + Ravel(Tail(idx), Tail(shape))

\* A[idx] for a full multi-index
Entry(A, idx) == A.data[Ravel(idx, A.shape) + 1]

\* np.transpose(A, order): axis i of the result is axis order[i] of A
Transpose(A, order) ==
    LET newshape == [i \in 1..Ndim(A) |-> A.shape[order[i] + 1]]
        src(idx) == [k \in 1..Ndim(A) |->
                        idx[CHOOSE i \in 1..Ndim(A) : order[i] = k - 1]]
    IN  [shape |-> newshape,
         data  |-> [p \in 1..Size(A) |-> Entry(A, src(Unravel(p - 1, newshape)))]]

\* np.moveaxis(A, source, destination)
moveaxis(A, source, destination) ==
    LET s == PyIndex(source, Ndim(A))
        d == PyIndex(destination, Ndim(A))
        others == ListPop([i \in 1..Ndim(A) |-> i - 1], s)
    IN  Transpose(A, ListInsert(others, d, s))

\* np.reshape(A, newshape), where one entry of newshape may be -1
reshape(A, newshape) ==
    LET known == Prod([i \in 1..Len(newshape) |->
                        IF newshape[i] = -1 THEN 1 ELSE newshape[i]])
    IN  [shape |-> [i \in 1..Len(newshape) |->
                        IF newshape[i] = -1 THEN Size(A) \div known ELSE newshape[i]],
         data  |-> A.data]

----------------------------------------------------------------------------
(* base.py: unfold and fold *)

\* A faulty unfold: reshapes without moving axis n to the front
unfold_without_moveaxis(A, n) == reshape(A, <<At(A.shape, n), -1>>)

unfold(A, n) == reshape(moveaxis(A, n, 0), <<At(A.shape, n), -1>>)

fold(Mat, n, shape) ==
    LET mode_dim == At(shape, n)
        newshape == ListInsert(ListPop(shape, n), 0, mode_dim)
    IN  moveaxis(reshape(Mat, newshape), 0, n)

----------------------------------------------------------------------------
(* base.py: flatten_factors and unflatten_factors *)

\* np.empty(n): n entries that hold whatever the memory held (here: -999);
\* flatten_factors overwrites every one of them before it returns
Empty(n) == [shape |-> <<n>>, data |-> [p \in 1..n |-> -999]]

\* flattened[offset : offset + size] = values
Assign(A, offset, values) ==
    [A EXCEPT !.data = [p \in 1..Len(A.data) |->
        IF p > offset /\ p <= offset + Len(values) THEN values[p - offset] ELSE @[p]]]

\* A faulty ravel: the entries of a matrix in Fortran (column-major) order
ravel_column_major(A) == Transpose(A, <<1, 0>>).data

\* factor.ravel(): the entries in C order
ravel(A) == A.data

RECURSIVE flatten_loop(_, _, _)
flatten_loop(flattened, offset, fs) ==
    IF fs = <<>> THEN flattened
    ELSE flatten_loop(Assign(flattened, offset, ravel(Head(fs))),
                      offset + Prod(Head(fs).shape), Tail(fs))

flatten_factors(fs) ==
    LET sizes == [i \in 1..Len(fs) |-> Prod(fs[i].shape)]
    IN  flatten_loop(Empty(Sum(sizes)), 0, fs)

RECURSIVE unflatten_loop(_, _, _, _)
unflatten_loop(A, rank, sizes, offset) ==
    IF sizes = <<>> THEN <<>>
    ELSE LET s    == Head(sizes)
             stop == offset + (s * rank)
             matrix == reshape([shape |-> <<stop - offset>>,
                                data  |-> Slice(A.data, offset, stop)], <<s, rank>>)
         IN  <<matrix>> \o unflatten_loop(A, rank, Tail(sizes), stop)

unflatten_factors(A, rank, sizes) == unflatten_loop(A, rank, sizes, 0)

----------------------------------------------------------------------------
(* base.py: Khatri-Rao product *)

Rows(A) == A.shape[1]

Cols(A) == A.shape[2]

\* A[i, k] of a matrix, 0-based
MatEntry(A, i, k) == A.data[i * Cols(A) + k + 1]

\* A faulty product: the rows of B vary slowest instead of fastest
khatri_rao_binary_swapped(A, B) ==
    LET I == Rows(A)
        J == Rows(B)
        K == Cols(B)
        e(p, k) == MatEntry(A, p % I, k) * MatEntry(B, p \div I, k)
    IN  [shape |-> <<I * J, K>>,
         data  |-> [q \in 1..(I * J * K) |-> e((q - 1) \div K, (q - 1) % K)]]

\* out[i*J:(i+1)*J] = row[np.newaxis, :] * B, for every row i of A
khatri_rao_binary(A, B) ==
    LET I == Rows(A)
        J == Rows(B)
        K == Cols(B)
        e(p, k) == MatEntry(A, p \div J, k) * MatEntry(B, p % J, k)
    IN  [shape |-> <<I * J, K>>,
         data  |-> [q \in 1..(I * J * K) |-> e((q - 1) \div K, (q - 1) % K)]]

\* An optional index argument: skip=None or skip=k
NoSkip == [isNone |-> TRUE]

Skip(k) == [isNone |-> FALSE, v |-> k]

RECURSIVE khatri_rao_loop(_, _)
khatri_rao_loop(product, rest) ==
    IF rest = <<>> THEN product
    ELSE khatri_rao_loop(khatri_rao_binary(product, Head(rest)), Tail(rest))

\* A faulty khatri_rao: the skipped factor stays in the product
khatri_rao_factors_keep_skipped(fs, skip) == fs

\* The function's own list: a copy of the arguments, without the skipped one
khatri_rao_factors(fs, skip) ==
    IF skip.isNone THEN fs ELSE ListPop(fs, skip.v)

khatri_rao(fs, skip) ==
    LET local == khatri_rao_factors(fs, skip)
    IN  khatri_rao_loop(Head(local), Tail(local))

\* What the call leaves in the list the caller passed: list(factors).copy()
\* makes the pop act on a copy
khatri_rao_callers_list(fs, skip) == fs

----------------------------------------------------------------------------
(* base.py: the matricised tensor times Khatri-Rao product *)

matmul(A, B) ==
    LET e(i, k) == Sum([j \in 1..Cols(A) |-> MatEntry(A, i, j - 1) * MatEntry(B, j - 1, k)])
    IN  [shape |-> <<Rows(A), Cols(B)>>,
         data  |-> [q \in 1..(Rows(A) * Cols(B)) |->
                        e((q - 1) \div Cols(B), (q - 1) % Cols(B))]]

MatAdd(A, B) == [A EXCEPT !.data = [p \in 1..Len(A.data) |-> @[p] + B.data[p]]]

zeros(rows, cols) == [shape |-> <<rows, cols>>, data |-> [p \in 1..(rows * cols) |-> 0]]

\* tensor[idx]: the sub-array at position idx of the first axis
SubArray(A, idx) ==
    LET sub == Tail(A.shape)
    IN  [shape |-> sub, data |-> Slice(A.data, idx * Prod(sub), (idx + 1) * Prod(sub))]

\* krp[a:b]: rows a..b-1 of a matrix
RowSlice(A, a, b) ==
    [shape |-> <<b - a, Cols(A)>>, data |-> Slice(A.data, a * Cols(A), b * Cols(A))]

RECURSIVE mttkrp_mid_loop(_, _, _, _, _)
mttkrp_mid_loop(tensor, krp, block_size, i, product) ==
    IF i >= tensor.shape[1] THEN product
    ELSE LET idx == i % tensor.shape[1]
         IN  mttkrp_mid_loop(tensor, krp, block_size, i + 1,
                MatAdd(product,
                       matmul(SubArray(tensor, idx),
                              RowSlice(krp, i * block_size, (i + 1) * block_size))))

\* A faulty block accumulation: slice idx of the tensor is paired with the
\* block of the next slice
_mttkrp_mid_with_krp_shifted(tensor, krp) ==
    LET block_size == At(tensor.shape, -1)
        e(j, r) == Sum([i \in 1..tensor.shape[1] |->
                      MatEntry(matmul(SubArray(tensor, i % tensor.shape[1]),
                                      RowSlice(krp, (i - 1) * block_size, i * block_size)),
                               j, r)])
        num_rows == At(tensor.shape, -2)
        num_cols == At(krp.shape, -1)
    IN  [shape |-> <<num_rows, num_cols>>,
         data  |-> [q \in 1..(num_rows * num_cols) |->
                        e((q - 1) \div num_cols, (q - 1) % num_cols)]]

_mttkrp_mid_with_krp(tensor, krp) ==
    LET shape == tensor.shape
        block_size == At(shape, -1)
        num_rows == At(shape, -2)
        num_cols == At(krp.shape, -1)
    IN  mttkrp_mid_loop(tensor, krp, block_size, 0, zeros(num_rows, num_cols))

_mttkrp_mid(tensor, matrices) == _mttkrp_mid_with_krp(tensor, khatri_rao(matrices, Skip(1)))

_mttkrp3(Xt, fs, m) ==
    IF m = 0 THEN
        matmul(reshape(Xt, <<At(Xt.shape, 0), -1>>), khatri_rao(fs, Skip(m)))
    ELSE IF m = 1 THEN
        _mttkrp_mid(Xt, fs)
    ELSE IF m = 2 \/ m = -1 THEN
        matmul(reshape(moveaxis(Xt, -1, 0), <<At(Xt.shape, -1), -1>>), khatri_rao(fs, Skip(m)))
    ELSE None

matrix_khatri_rao_product(Xt, fs, m) ==
    IF Len(fs) = 3 THEN _mttkrp3(Xt, fs, m)
    ELSE matmul(unfold(Xt, m), khatri_rao(fs, Skip(m)))

----------------------------------------------------------------------------
(* Inputs *)

Shapes == UNION {[1..k -> 1..MaxDim] : k \in 1..MaxModes}

\* An array of the given shape with pairwise distinct entries, some of them
\* negative or zero
GenArray(shape) ==
    [shape |-> shape, data |-> [p \in 1..Prod(shape) |-> (p - 1) - 2]]

\* The factor matrix of mode n (0-based): rows x rank, entries distinct
\* within the matrix, and shifted from one mode to the next
GenFactor(rows, rank, n) ==
    [shape |-> <<rows, rank>>,
     data  |-> [p \in 1..(rows * rank) |-> n + (p - 1) - 1]]

GenFactors(shape, rank) ==
    [n \in 1..Len(shape) |-> GenFactor(shape[n], rank, n - 1)]

NoArray == [shape |-> <<0>>, data |-> <<>>]

\* The decomposer variables while no decomposer is in use
NoDecomposer ==
    /\ driver = "none"
    /\ X = 0
    /\ decomposition = None
    /\ current_iteration = -1
    /\ max_its = 0
    /\ checkpoint_frequency = -1
    /\ convergence_tol = <<0, 1>>
    /\ prev_SSE = 0
    /\ rel_function_change = [inf |-> TRUE]
    /\ store = [attrs |-> <<>>, groups |-> <<>>]
    /\ writes = <<>>
    /\ loggers = <<>>
    /\ pc = "idle"
    /\ it = -1
    /\ loop_n = 0
    /\ call = [kind |-> "none", n |-> 0, sweeps |-> 0, trace |-> <<>>]

InitAlg ==
    /\ \E sh \in Shapes, rank \in 1..MaxRank :
        /\ T = GenArray(sh)
        /\ factors = GenFactors(sh, rank)
    /\ mode \in -Ndim(T)..(Ndim(T) - 1)
    /\ M = NoArray
    /\ out = None
    /\ step = "start"
    /\ weights_arg = None
    /\ kt = None
    /\ raised = "none"
    /\ calls = 0
    /\ NoDecomposer

Unfold ==
    /\ step = "start"
    /\ M' = unfold(T, mode)
    /\ step' = "unfold"
    /\ UNCHANGED <<T, factors, mode, out>>
    /\ UNCHANGED ktVars
    /\ UNCHANGED fitVars

Fold ==
    /\ step = "unfold"
    /\ out' = fold(M, mode, T.shape)
    /\ step' = "fold"
    /\ UNCHANGED <<T, factors, mode, M>>
    /\ UNCHANGED ktVars
    /\ UNCHANGED fitVars

Flatten ==
    /\ step = "start"
    /\ M' = flatten_factors(factors)
    /\ step' = "flatten"
    /\ UNCHANGED <<T, factors, mode, out>>
    /\ UNCHANGED ktVars
    /\ UNCHANGED fitVars

\* The caller derives rank and sizes from the factors, as test_base.py does
Unflatten ==
    /\ step = "flatten"
    /\ out' = unflatten_factors(M, Cols(factors[1]),
                                [n \in 1..Len(factors) |-> Rows(factors[n])])
    /\ step' = "unflatten"
    /\ UNCHANGED <<T, factors, mode, M>>
    /\ UNCHANGED ktVars
    /\ UNCHANGED fitVars

\* khatri_rao(factors): no factor skipped
KhatriRaoAll ==
    /\ step = "start"
    /\ out' = khatri_rao(factors, NoSkip)
    /\ factors' = khatri_rao_callers_list(factors, NoSkip)
    /\ step' = "khatri_rao"
    /\ UNCHANGED <<T, mode, M>>
    /\ UNCHANGED ktVars
    /\ UNCHANGED fitVars

\* khatri_rao(factors, skip=mode); at least one factor must remain
KhatriRaoSkip ==
    /\ step = "start"
    /\ Len(factors) >= 2
    /\ out' = khatri_rao(factors, Skip(mode))
    /\ factors' = khatri_rao_callers_list(factors, Skip(mode))
    /\ step' = "khatri_rao_skip"
    /\ UNCHANGED <<T, mode, M>>
    /\ UNCHANGED ktVars
    /\ UNCHANGED fitVars

MatrixKhatriRaoProduct ==
    /\ step = "start"
    /\ Len(factors) >= 2
    /\ out' = matrix_khatri_rao_product(T, factors, mode)
    /\ step' = "mttkrp"
    /\ UNCHANGED <<T, factors, mode, M>>
    /\ UNCHANGED ktVars
    /\ UNCHANGED fitVars

NextAlg ==
    \/ Unfold
    \/ Fold
    \/ Flatten
    \/ Unflatten
    \/ KhatriRaoAll
    \/ KhatriRaoSkip
    \/ MatrixKhatriRaoProduct

SpecAlg == InitAlg /\ [][NextAlg]_vars

----------------------------------------------------------------------------
(* base.py: ktensor and the KruskalTensor class *)

ones(n) == [shape |-> <<n>>, data |-> [p \in 1..n |-> 1]]

\* weights * F: a weight vector of shape (R,) or (1, R) broadcast over the
\* rows of the matrix F, or a matrix of F's shape multiplied entry by entry
Broadcast(w, F) ==
    [F EXCEPT !.data = [p \in 1..Len(F.data) |->
        @[p] * (IF Len(w.data) = Len(F.data) /\ Ndim(w) = 2 /\ Rows(w) = Rows(F)
                THEN w.data[p]
                ELSE w.data[((p - 1) % Cols(F)) + 1])]]

\* A.T of a matrix
MatT(A) == Transpose(A, <<1, 0>>)

\* weights[np.newaxis, ...]
newaxis(w) == [w EXCEPT !.shape = <<1>> \o @]

ktensor(fs, weights) ==
    LET w0 == IF weights = None
              THEN [shape |-> fs[1].shape, data |-> [p \in 1..Prod(fs[1].shape) |-> 1]]
              ELSE weights
        w  == IF Ndim(w0) = 1 THEN newaxis(w0) ELSE w0
        shape  == [n \in 1..Len(fs) |-> Rows(fs[n])]
        tensor == matmul(Broadcast(w, fs[1]), MatT(khatri_rao(Tail(fs), NoSkip)))
    IN  fold(tensor, 0, shape)

\* KruskalTensor.__init__: the object, or the exception it raises.  The
\* message of the first ValueError formats {i}, a name the method never
\* binds, so building the message raises NameError instead.
KruskalTensor(factor_matrices, weights) ==
    LET rank == Cols(factor_matrices[1])
    IN  IF \E i \in 1..Len(factor_matrices) : Cols(factor_matrices[i]) # rank
        THEN [raised |-> "NameError", obj |-> None]
        ELSE IF weights # None /\ Len(weights.data) # rank
        THEN [raised |-> "ValueError", obj |-> None]
        ELSE [raised |-> "none",
              obj |-> [rank |-> rank,
                       factor_matrices |-> factor_matrices,
                       ids |-> [i \in 1..Len(factor_matrices) |-> i],
                       next_id |-> Len(factor_matrices) + 1,
                       weights |-> IF weights = None THEN ones(rank) ELSE weights]]

\* The first statement of construct_tensor: a 1-d weight vector is replaced
\* by its (1, rank) view
construct_tensor_weights(self) ==
    IF Ndim(self.weights) = 1 THEN newaxis(self.weights) ELSE self.weights

construct_tensor(self) ==
    LET w == construct_tensor_weights(self)
        shape  == [n \in 1..Len(self.factor_matrices) |-> Rows(self.factor_matrices[n])]
        tensor == matmul(Broadcast(w, self.factor_matrices[1]),
                         MatT(khatri_rao(Tail(self.factor_matrices), NoSkip)))
    IN  fold(tensor, 0, shape)

IsSquare(n) == \E k \in 0..n : k * k = n

Sqrt(n) == CHOOSE k \in 0..n : k * k = n

\* np.linalg.norm(factor_matrix, axis=0): the norm of every column
ColumnNorms(F) ==
    [r \in 1..Cols(F) |-> Sqrt(Sum([i \in 1..Rows(F) |->
                                MatEntry(F, i - 1, r - 1) * MatEntry(F, i - 1, r - 1)]))]

\* a / b where b divides a
Quotient(a, b) ==
    LET m == IF a < 0 THEN -a ELSE a
    IN  CHOOSE q \in (-m)..m : q * b = a

\* factor_matrix / norms[np.newaxis]
DivideColumns(F, norms) ==
    [F EXCEPT !.data = [p \in 1..Len(F.data) |-> Quotient(@[p], norms[((p - 1) % Cols(F)) + 1])]]

\* The model's arithmetic is exact only where norms and quotients are whole
\* numbers: every column norm is a positive integer that divides the column
Normalizable(F) ==
    \A r \in 1..Cols(F) :
        LET sq == Sum([i \in 1..Rows(F) |->
                        MatEntry(F, i - 1, r - 1) * MatEntry(F, i - 1, r - 1)])
        IN  /\ sq > 0
            /\ IsSquare(sq)
            /\ \A i \in 1..Rows(F) : MatEntry(F, i - 1, r - 1) % Sqrt(sq) = 0

\* The loop of normalize_components over the factor matrices from index i:
\* each entry of the list is rebound to a new array, and the local weights,
\* which start at ones(rank), are multiplied by the norms
RECURSIVE normalize_loop(_, _, _)
normalize_loop(self, i, weights) ==
    IF i > Len(self.factor_matrices) THEN [self |-> self, weights |-> weights]
    ELSE LET norms == ColumnNorms(self.factor_matrices[i])
         IN  normalize_loop(
                [self EXCEPT !.factor_matrices[i] = DivideColumns(@, norms),
                             !.ids[i] = self.next_id,
                             !.next_id = @ + 1],
                i + 1,
                [weights EXCEPT !.data = [r \in 1..Len(@) |-> @[r] * norms[r]]])

normalize_components(self, update_weights) ==
    LET r == normalize_loop(self, 1, ones(self.rank))
    IN  IF update_weights THEN [r.self EXCEPT !.weights = r.weights] ELSE r.self

----------------------------------------------------------------------------
(* decomposition/cp.py: the factor updates of one ALS sweep.  The solution *)
(* of a mode's least-squares problem is an input; what is modelled is      *)
(* where each update stores it.                                            *)

\* self.factor_matrices[mode][...] = new_factor: the values are written
\* into the array the list entry refers to
_update_als_factor(self, m, new_factor) ==
    [self EXCEPT !.factor_matrices[m] = new_factor]

\* self.factor_matrices[mode] = new_factor: the list entry is rebound to
\* the array the solver returned
_update_als_factor_non_negative(self, m, new_factor) ==
    [self EXCEPT !.factor_matrices[m] = new_factor,
                 !.ids[m] = self.next_id,
                 !.next_id = @ + 1]

\* The loop of _update_als_factors from mode m on: the mode's update, then
\* decomposition.normalize_components()
RECURSIVE update_als_loop(_, _, _, _)
update_als_loop(self, m, non_negativity_constraints, solutions) ==
    IF m > Len(self.factor_matrices) THEN self
    ELSE LET updated == IF non_negativity_constraints[m]
                        THEN _update_als_factor_non_negative(self, m, solutions[m])
                        ELSE _update_als_factor(self, m, solutions[m])
         IN  update_als_loop(normalize_components(updated, TRUE), m + 1,
                             non_negativity_constraints, solutions)

_update_als_factors(self, non_negativity_constraints, solutions) ==
    update_als_loop(self, 1, non_negativity_constraints, solutions)

----------------------------------------------------------------------------
(* decomposition/block_parafac2.py: the sub-problems RLS and               *)
(* ADMMSubproblem.  The results of the linear solvers are inputs; what is  *)
(* modelled is what update_decomposition does with them.                   *)

\* np.maximum(A, 0)
maximum0(A) == [A EXCEPT !.data = [p \in DOMAIN @ |-> IF @[p] < 0 THEN 0 ELSE @[p]]]

MatSub(A, B) == [A EXCEPT !.data = [p \in DOMAIN @ |-> @[p] - B.data[p]]]

\* A faulty RLS update: the solution is stored in the mode after self.mode
RLS_update_next_mode(dec, m, solution) ==
    [dec EXCEPT
        !.factor_matrices[(m % Len(dec.factor_matrices)) + 1] = solution]

\* RLS.update_decomposition:
\* factor_matrices[self.mode][:] = rightsolve(lhs, rhs) on the argument dec
RLS_update_decomposition(dec, m, solution) ==
    [dec EXCEPT !.factor_matrices[m] = solution]

\* ADMMSubproblem.has_converged: norm(fm - aux_fm) < tol, for whole entries
\* and a tolerance below 1
admm_has_converged(fm, aux_fm) == fm = aux_fm

\* The outcomes of a proximal solve the model distinguishes
ProxChoices == {"lstsq", "constraint", "reflected"}

\* prox_reg_lstsq(lhs.T, rhs.T, rho/2, I, target.T).T: the minimiser of the
\* least-squares term plus the distance to target.  Its value depends on lhs
\* and rhs; the model takes the least-squares solution, the target, or the
\* negated least-squares solution as an outcome unrelated to both
prox_reg_lstsq(lstsq, target, choice) ==
    IF choice = "lstsq" THEN lstsq
    ELSE IF choice = "constraint" THEN target
    ELSE MatSub(zeros(Rows(lstsq), Cols(lstsq)), lstsq)

\* A faulty pass: the dual variable is updated before the projection, with
\* the auxiliary variable of the pass before
admm_pass_dual_first(aux_fm, dual_variable, lstsq, choice) ==
    LET fm1   == prox_reg_lstsq(lstsq, MatSub(aux_fm, dual_variable), choice)
        dual1 == MatAdd(dual_variable, MatSub(fm1, aux_fm))
        aux1  == maximum0(MatAdd(fm1, dual_variable))
    IN  [fm |-> fm1, aux_fm |-> aux1, dual_variable |-> dual1]

\* One pass of the loop of ADMMSubproblem.update_decomposition: the proximal
\* solve toward aux_fm - dual_variable, update_constraint, the dual update.
\* choice is the outcome of the proximal solve.
admm_pass(aux_fm, dual_variable, lstsq, choice) ==
    LET fm1   == prox_reg_lstsq(lstsq, MatSub(aux_fm, dual_variable), choice)
        aux1  == maximum0(MatAdd(fm1, dual_variable))
        dual1 == MatAdd(dual_variable, MatSub(fm1, aux1))
    IN  [fm |-> fm1, aux_fm |-> aux1, dual_variable |-> dual1]

\* The loop of ADMMSubproblem.update_decomposition with its_left passes
\* left; prox[k] is the outcome of the proximal solve of the k-th pass.  The value is the final
\* aux_fm.
RECURSIVE admm_loop(_, _, _, _, _, _)
admm_loop(fm, aux_fm, dual_variable, lstsq, prox, its_left) ==
    IF its_left = 0 \/ admm_has_converged(fm, aux_fm) THEN aux_fm
    ELSE LET r == admm_pass(aux_fm, dual_variable, lstsq, Head(prox))
         IN  admm_loop(r.fm, r.aux_fm, r.dual_variable, lstsq, Tail(prox), its_left - 1)

\* ADMMSubproblem.update_decomposition: fm[:] = ... writes into
\* factor_matrices[self.mode] on every pass, and the last statement stores
\* the auxiliary variable there
ADMM_update_decomposition(dec, m, lstsq, prox, max_it) ==
    LET aux_fm == admm_loop(lstsq, maximum0(lstsq), zeros(Rows(lstsq), Cols(lstsq)),
                            lstsq, prox, max_it)
    IN  [dec EXCEPT !.factor_matrices[m] = aux_fm]

----------------------------------------------------------------------------
(* Inputs of the KruskalTensor calls *)

\* Factor matrices whose columns have a whole norm: one non-zero entry each
AxisFactor(rows, rank, n) ==
    [shape |-> <<rows, rank>>,
     data  |-> [p \in 1..(rows * rank) |->
                LET i == (p - 1) \div rank
                    r == (p - 1) % rank
                IN  IF i = (r + n) % rows
                    THEN (IF (n + r) % 2 = 0 THEN 1 ELSE -1) * (n + r + 1)
                    ELSE 0]]

AxisFactors(shape, rank) ==
    [n \in 1..Len(shape) |-> AxisFactor(shape[n], rank, n - 1)]

\* Factor matrices of which the last has one column more than the others
MismatchedFactors(shape, rank) ==
    [n \in 1..Len(shape) |->
        GenFactor(shape[n], IF n = Len(shape) THEN rank + 1 ELSE rank, n - 1)]

KTShapes == UNION {[1..k -> 1..MaxDim] : k \in 2..MaxModes}

\* weights=None, a vector of rank weights, or a vector of the wrong length
WeightArgs(rank) ==
    {None,
     [shape |-> <<rank>>, data |-> [r \in 1..rank |-> r + 1]],
     [shape |-> <<rank + 1>>, data |-> [r \in 1..(rank + 1) |-> r]]}

InitKT ==
    /\ \E sh \in KTShapes, rank \in 1..MaxRank :
        /\ factors \in {GenFactors(sh, rank), AxisFactors(sh, rank),
                        MismatchedFactors(sh, rank)}
        /\ weights_arg \in WeightArgs(rank)
    /\ T = NoArray
    /\ mode = 0
    /\ M = NoArray
    /\ out = None
    /\ step = "start"
    /\ kt = None
    /\ raised = "none"
    /\ calls = 0
    /\ NoDecomposer

\* KruskalTensor(factors, weights): the object keeps the caller's list
Construct ==
    /\ step = "start"
    /\ LET r == KruskalTensor(factors, weights_arg)
       IN  /\ kt' = r.obj
           /\ raised' = r.raised
    /\ step' = "construct"
    /\ UNCHANGED <<T, factors, mode, M, out, weights_arg, calls>>
    /\ UNCHANGED fitVars

\* ktensor(*factors, weights=weights) on factors with equal column counts
Ktensor ==
    /\ step = "start"
    /\ \A i \in 1..Len(factors) : Cols(factors[i]) = Cols(factors[1])
    /\ weights_arg # None => Len(weights_arg.data) = Cols(factors[1])
    /\ out' = ktensor(factors, weights_arg)
    /\ step' = "ktensor"
    /\ UNCHANGED <<T, factors, mode, M, weights_arg, kt, raised, calls>>
    /\ UNCHANGED fitVars

ConstructTensor ==
    /\ kt # None
    /\ calls < MaxCalls
    /\ out' = construct_tensor(kt)
    /\ kt' = [kt EXCEPT !.weights = construct_tensor_weights(kt)]
    /\ step' = "construct_tensor"
    /\ calls' = calls + 1
    /\ UNCHANGED <<T, factors, mode, M, weights_arg, raised>>
    /\ UNCHANGED fitVars

\* normalize_components(update_weights): self.factor_matrices is the list the
\* caller passed, so the caller's list shows the rebound entries as well
NormalizeComponents ==
    /\ kt # None
    /\ calls < MaxCalls
    /\ \A i \in 1..Len(kt.factor_matrices) : Normalizable(kt.factor_matrices[i])
    /\ \E update_weights \in BOOLEAN :
        /\ kt' = normalize_components(kt, update_weights)
        /\ step' = IF update_weights THEN "normalize" ELSE "normalize_keep_weights"
    /\ factors' = kt'.factor_matrices
    /\ calls' = calls + 1
    /\ UNCHANGED <<T, mode, M, out, weights_arg, raised>>
    /\ UNCHANGED fitVars

\* non_negativity_constraints: no mode, every mode, or the first mode only
NonNegativityConstraints(n) ==
    {[m \in 1..n |-> FALSE], [m \in 1..n |-> TRUE], [m \in 1..n |-> m = 1]}

\* The solutions of the modes' least-squares problems in one sweep: here
\* matrices of the factors' shapes with one entry per column, non-negative
\* for the modes solved with the non-negative solver
Solutions(self, non_negativity_constraints) ==
    [m \in 1..Len(self.factor_matrices) |->
        LET F == AxisFactor(Rows(self.factor_matrices[m]), self.rank, m)
        IN  IF non_negativity_constraints[m]
            THEN [F EXCEPT !.data = [p \in DOMAIN @ |-> IF @[p] < 0 THEN -@[p] ELSE @[p]]]
            ELSE F]

\* One sweep of CP_ALS._update_als_factors on the decomposition; the list
\* of factor matrices is the one the caller passed to the constructor
UpdateAlsFactors ==
    /\ kt # None
    /\ calls < MaxCalls
    /\ \A i \in 1..Len(kt.factor_matrices) : Normalizable(kt.factor_matrices[i])
    /\ \E nn \in NonNegativityConstraints(Len(kt.factor_matrices)) :
        kt' = _update_als_factors(kt, nn, Solutions(kt, nn))
    /\ factors' = kt'.factor_matrices
    /\ step' = "sweep"
    /\ calls' = calls + 1
    /\ UNCHANGED <<T, mode, M, out, weights_arg, raised>>
    /\ UNCHANGED fitVars

NextKT ==
    \/ Construct
    \/ Ktensor
    \/ ConstructTensor
    \/ NormalizeComponents

SpecKT == InitKT /\ [][NextKT]_vars

\* BlockParafac2._init_fit: cp_decomposition = KruskalTensor([A, B, C]),
\* a three-mode decomposition without weights argument
InitSub ==
    /\ \E sh \in [1..3 -> 1..MaxDim], rank \in 1..MaxRank :
        /\ factors = GenFactors(sh, rank)
        /\ kt = KruskalTensor(factors, None).obj
    /\ weights_arg = None
    /\ T = NoArray
    /\ mode = 0
    /\ M = NoArray
    /\ out = None
    /\ step = "construct"
    /\ raised = "none"
    /\ calls = 0
    /\ NoDecomposer

\* The result of the least-squares solve for mode m (1-based), an input
LstsqSolution(self, m) == AxisFactor(Rows(self.factor_matrices[m]), self.rank, m)

\* RLS(mode).update_decomposition(X, decomposition); mode is the
\* sub-problem's Python index
RlsUpdateDecomposition ==
    /\ kt # None
    /\ calls < MaxCalls
    /\ \E m \in 1..Len(kt.factor_matrices) :
        /\ mode' = m - 1
        /\ kt' = RLS_update_decomposition(kt, m, LstsqSolution(kt, m))
    /\ step' = "RLS"
    /\ factors' = kt'.factor_matrices
    /\ calls' = calls + 1
    /\ UNCHANGED <<T, M, out, weights_arg, raised>>
    /\ UNCHANGED fitVars

\* ADMMSubproblem(mode, max_it=max_it).update_decomposition(X, decomposition)
AdmmUpdateDecomposition ==
    /\ kt # None
    /\ calls < MaxCalls
    /\ \E m \in 1..Len(kt.factor_matrices), max_it \in 0..MaxAdmmIt :
      \E prox \in [1..max_it -> ProxChoices] :
        /\ mode' = m - 1
        /\ kt' = ADMM_update_decomposition(kt, m, LstsqSolution(kt, m), prox, max_it)
    /\ step' = "ADMM"
    /\ factors' = kt'.factor_matrices
    /\ calls' = calls + 1
    /\ UNCHANGED <<T, M, out, weights_arg, raised>>
    /\ UNCHANGED fitVars

\* ADMMSubproblem.update_decomposition pass by pass.  M holds aux_fm, out
\* holds dual_variable, loop_n the length of range(self.max_it) and it the
\* loop variable.  First the statements before the loop
AdmmBegin ==
    /\ pc \in {"idle", "returned"}
    /\ calls < MaxCalls
    /\ \E m \in 1..Len(kt.factor_matrices), max_it \in 0..MaxAdmmIt :
        LET lstsq == LstsqSolution(kt, m)
        IN  /\ mode' = m - 1
            /\ kt' = [kt EXCEPT !.factor_matrices[m] = lstsq]
            /\ M' = maximum0(lstsq)
            /\ out' = zeros(Rows(lstsq), Cols(lstsq))
            /\ loop_n' = max_it
    /\ it' = -1
    /\ pc' = "loop"
    /\ step' = "ADMM_init"
    /\ factors' = kt'.factor_matrices
    /\ calls' = calls + 1
    /\ UNCHANGED <<T, weights_arg, raised>>
    /\ UNCHANGED <<driver, X, decomposition, current_iteration, max_its,
                   checkpoint_frequency, convergence_tol, prev_SSE,
                   rel_function_change, store, writes, loggers, call>>

\* One pass of the loop
AdmmPass ==
    /\ pc = "loop"
    /\ it + 1 < loop_n
    /\ ~admm_has_converged(kt.factor_matrices[mode + 1], M)
    /\ \E choice \in ProxChoices :
        LET r == admm_pass(M, out, LstsqSolution(kt, mode + 1), choice)
        IN  /\ kt' = [kt EXCEPT !.factor_matrices[mode + 1] = r.fm]
            /\ M' = r.aux_fm
            /\ out' = r.dual_variable
    /\ it' = it + 1
    /\ step' = "ADMM_pass"
    /\ factors' = kt'.factor_matrices
    /\ UNCHANGED <<T, mode, weights_arg, raised, calls>>
    /\ UNCHANGED <<driver, X, decomposition, current_iteration, max_its,
                   checkpoint_frequency, convergence_tol, prev_SSE,
                   rel_function_change, store, writes, loggers, pc, loop_n, call>>

\* The loop ends, by the break or by exhausting its range, and the
\* auxiliary variable is stored in the factor matrix
AdmmEnd ==
    /\ pc = "loop"
    /\ (it + 1 >= loop_n \/ admm_has_converged(kt.factor_matrices[mode + 1], M))
    /\ kt' = [kt EXCEPT !.factor_matrices[mode + 1] = M]
    /\ pc' = "returned"
    /\ step' = "ADMM_return"
    /\ factors' = kt'.factor_matrices
    /\ UNCHANGED <<T, mode, M, out, weights_arg, raised, calls>>
    /\ UNCHANGED <<driver, X, decomposition, current_iteration, max_its,
                   checkpoint_frequency, convergence_tol, prev_SSE,
                   rel_function_change, store, writes, loggers, it, loop_n, call>>

NextADMM ==
    \/ AdmmBegin
    \/ AdmmPass
    \/ AdmmEnd

SpecADMM == InitSub /\ [][NextADMM]_vars

NextSub ==
    \/ RlsUpdateDecomposition
    \/ AdmmUpdateDecomposition

SpecSub == InitSub /\ [][NextSub]_vars

----------------------------------------------------------------------------
(* decomposition/cmtf2.py: one sweep of CMTF_ALS on a CoupledTensors       *)
(* decomposition: a KruskalTensor `tensor` and a list `matrices` of        *)
(* two-factor KruskalTensors, matrices[i] coupled to the tensor along      *)
(* coupling_modes[i].  Arrays are objects: ids names the object each list  *)
(* entry refers to, and a write through one reference shows through every  *)
(* reference to the same object.                                           *)

\* obj[...] = value for the object named id, seen through every list
WriteInPlace(dec, id, value) ==
    LET upd(kr) == [kr EXCEPT !.factor_matrices =
                        [n \in DOMAIN @ |-> IF kr.ids[n] = id THEN value ELSE @[n]]]
    IN  [dec EXCEPT !.tensor = upd(@),
                    !.matrices = [i \in DOMAIN @ |-> upd(@[i])]]

\* CoupledTensors.random_init: matrices[i].factor_matrices[0] is the tensor's
\* factor matrix of mode coupling_modes[i], the same object
CoupledTensors_random_init(tensor_sizes, rank, matrices_sizes, coupling_modes) ==
    LET N == Len(tensor_sizes)
        tensor == [rank |-> rank,
                   factor_matrices |-> AxisFactors(tensor_sizes, rank),
                   ids |-> [n \in 1..N |-> n],
                   next_id |-> 0,
                   weights |-> ones(rank)]
    IN  [tensor |-> tensor,
         matrices |-> [i \in 1..Len(coupling_modes) |->
                        [rank |-> rank,
                         factor_matrices |->
                            <<tensor.factor_matrices[coupling_modes[i] + 1],
                              AxisFactor(matrices_sizes[i][2], rank, i)>>,
                         ids |-> <<coupling_modes[i] + 1, N + i>>,
                         next_id |-> 0,
                         weights |-> ones(rank)]],
         coupling_modes |-> coupling_modes,
         next_id |-> N + Len(coupling_modes) + 1]

\* A method of the KruskalTensor dec.tensor that may allocate arrays: it
\* runs with the allocator's counter and hands the counter back
OnTensor(dec, result) ==
    [dec EXCEPT !.tensor = [result EXCEPT !.next_id = 0],
                !.next_id = result.next_id]

OnMatrix(dec, i, result) ==
    [dec EXCEPT !.matrices[i] = [result EXCEPT !.next_id = 0],
                !.next_id = result.next_id]

\* CMTF_ALS._update_als_factor: the new factor is written into the tensor's
\* factor matrix and into the first factor of every matrix coupled to mode
cmtf_update_als_factor(dec, m, new_factor) ==
    LET written == WriteInPlace(dec, dec.tensor.ids[m], new_factor)
        RECURSIVE coupled(_, _)
        coupled(d, i) ==
            IF i > Len(d.coupling_modes) THEN d
            ELSE coupled(IF d.coupling_modes[i] = m - 1
                         THEN WriteInPlace(d, d.matrices[i].ids[1], new_factor)
                         ELSE d, i + 1)
    IN  coupled(written, 1)

\* CP_ALS._update_als_factor_non_negative, which CMTF_ALS inherits, on
\* self.factor_matrices, the tensor's list
cmtf_update_als_factor_non_negative(dec, m, new_factor) ==
    OnTensor(dec, _update_als_factor_non_negative(
                    [dec.tensor EXCEPT !.next_id = dec.next_id], m, new_factor))

\* The loop over the modes in CMTF_ALS._update_als_factors
RECURSIVE cmtf_modes_loop(_, _, _, _)
cmtf_modes_loop(dec, m, non_negativity_constraints, solutions) ==
    IF m > Len(dec.tensor.factor_matrices) THEN dec
    ELSE cmtf_modes_loop(
            IF non_negativity_constraints[m]
            THEN cmtf_update_als_factor_non_negative(dec, m, solutions[m])
            ELSE cmtf_update_als_factor(dec, m, solutions[m]),
            m + 1, non_negativity_constraints, solutions)

\* _update_uncoupled_matrix_factors: uncoupled_factor_matrices[i][...] = ...
RECURSIVE _update_uncoupled_matrix_factors(_, _)
_update_uncoupled_matrix_factors(dec, i) ==
    IF i > Len(dec.matrices) THEN dec
    ELSE _update_uncoupled_matrix_factors(
            WriteInPlace(dec, dec.matrices[i].ids[2],
                         AxisFactor(Rows(dec.matrices[i].factor_matrices[2]),
                                    dec.matrices[i].rank, i + 1)),
            i + 1)

\* reset_weights()
reset_weights(self) == [self EXCEPT !.weights = ones(self.rank)]

\* The weights the penalised update computes, an input
PenalisedWeights(rank) == [shape |-> <<rank>>, data |-> [r \in 1..rank |-> r]]

\* The loop over decomposition.matrices in _reguralize_weights
RECURSIVE reguralize_matrices(_, _)
reguralize_matrices(dec, i) ==
    IF i > Len(dec.matrices) THEN dec
    ELSE LET mat == normalize_components(
                        reset_weights([dec.matrices[i] EXCEPT !.next_id = dec.next_id]),
                        TRUE)
         IN  reguralize_matrices(
                OnMatrix(dec, i, [mat EXCEPT !.weights = PenalisedWeights(mat.rank)]),
                i + 1)

\* _reguralize_weights: the tensor and every matrix are normalised with
\* KruskalTensor.normalize_components and get new weights
_reguralize_weights(dec) ==
    LET tensor == normalize_components(
                    reset_weights([dec.tensor EXCEPT !.next_id = dec.next_id]), TRUE)
    IN  reguralize_matrices(
            OnTensor(dec, [tensor EXCEPT !.weights = PenalisedWeights(tensor.rank)]), 1)

\* CMTF_ALS._update_als_factors
cmtf_update_als_factors(dec, non_negativity_constraints, penalty) ==
    LET solutions == Solutions(dec.tensor, non_negativity_constraints)
        updated == _update_uncoupled_matrix_factors(
                        cmtf_modes_loop(dec, 1, non_negativity_constraints, solutions), 1)
    IN  IF penalty # 0 THEN _reguralize_weights(updated) ELSE updated

\* A decomposition is constructed and then swept by CP_ALS
NextALS ==
    \/ Construct
    \/ UpdateAlsFactors

SpecALS == InitKT /\ [][NextALS]_vars

----------------------------------------------------------------------------
(* decomposition/base_decomposer.py, decomposition/cp.py and                *)
(* decomposition/block_parafac2.py: the fit loop and its checkpoints.       *)
(* A decomposition is abstracted to which fit call initialised it, which    *)
(* target that initialisation read, and how many sweeps have updated it;    *)
(* the error after each sweep is an input.                                  *)

\* An optional integer argument: max_its=None or max_its=v
NotGiven == [isNone |-> TRUE]

Given(v) == [isNone |-> FALSE, v |-> v]

\* a % b with Python's sign rule (the result has the sign of b), b # 0
PyMod(a, b) == IF b > 0 THEN a % b ELSE -((-a) % (-b))

Abs(x) == IF x < 0 THEN -x ELSE x

\* np.inf, and the fraction (prev - curr) / prev for prev > 0
Inf == [inf |-> TRUE]

RelChange(prev, curr) == [inf |-> FALSE, num |-> prev - curr, den |-> prev]

\* cp.py:249  abs(self._rel_function_change) < self.convergence_tol
cp_has_converged(rel, tol) ==
    /\ ~rel.inf
    /\ Abs(rel.num) * tol[2] < tol[1] * rel.den

\* block_parafac2.py:390  self._rel_function_change < self.convergence_tol
parafac2_has_converged(rel, tol) ==
    /\ ~rel.inf
    /\ rel.num * tol[2] < tol[1] * rel.den

has_converged(d, rel, tol) ==
    IF d = "CP_ALS" THEN cp_has_converged(rel, tol) ELSE parafac2_has_converged(rel, tol)

\* CP_ALS._update_convergence: the new relative change.  BlockParafac2
\* delegates to Parafac2_ALS._update_convergence, taken here to compute the
\* same fraction from its loss.
_update_convergence(prev, curr) == RelChange(prev, curr)

\* set_target(X)
set_target(x) == x

\* init_components: a new decomposition, built from the target self.X holds
\* at the moment of the call
init_components(n, self_X) == [fit |-> n, init_X |-> self_X, sweeps |-> 0]

\* _init_fit of pytensor/decomposition/base_decomposer.py: the counter is
\* reset, the target is set, then the components are initialised
base_init_fit(n, x, old_X) ==
    LET X1 == set_target(x)
    IN  [current_iteration |-> 0,
         X |-> X1,
         decomposition |-> init_components(n, X1),
         trace |-> <<"reset_iteration", "set_target", "init_components">>]

\* _init_fit of decomposition/base_decomposer.py: the components are
\* initialised first, the target is set afterwards, the counter is not touched
legacy_init_fit(n, x, old_X, old_iteration) ==
    LET dec == init_components(n, old_X)
    IN  [current_iteration |-> old_iteration,
         X |-> set_target(x),
         decomposition |-> dec,
         trace |-> <<"init_components", "set_target">>]

_init_fit(d, n, x, old_X, old_iteration) ==
    IF d = "Legacy" THEN legacy_init_fit(n, x, old_X, old_iteration)
    ELSE base_init_fit(n, x, old_X)

\* store_checkpoint: the attributes are written first, then the group of the
\* current iteration is created; h5py refuses to create a group whose name
\* exists already (ValueError), after the attributes have been written
store_checkpoint(st, iteration, dec, type) ==
    LET its == IF "checkpoint_its" \in DOMAIN st.attrs
               THEN st.attrs.checkpoint_its \o <<iteration>>
               ELSE <<iteration>>
        attrs == [checkpoint_its |-> its,
                  final_iteration |-> iteration,
                  decomposition_type |-> type]
    IN  IF iteration \in DOMAIN st.groups
        THEN [store |-> [st EXCEPT !.attrs = attrs], raised |-> "ValueError"]
        ELSE [store |-> [attrs |-> attrs, groups |-> (iteration :> dec) @@ st.groups],
              raised |-> "none"]

\* The condition of the periodic checkpoint in _after_fit_iteration
periodic_checkpoint_due(iteration, frequency) ==
    (PyMod(iteration + 1, frequency) = 0) /\ (frequency > 0)

\* The condition of the checkpoint at the end of _fit.  cp.py:258 tests the
\* loop variable it; block_parafac2.py:403-406 tests self.current_iteration
final_checkpoint_due(d, loop_it, iteration, frequency) ==
    IF d = "CP_ALS" THEN PyMod(loop_it + 1, frequency) # 0
    ELSE (PyMod(iteration + 1, frequency) # 0) /\ (frequency > 0)

\* The range _fit iterates over
loop_range(d, m, iteration) ==
    IF d = "CP_ALS" THEN m
    ELSE IF m - iteration < 0 THEN 0 ELSE m - iteration

\* A faulty continue_fit: it prepares the loop the way fit does
continue_fit_reinitialising(self, m) ==
    [self EXCEPT !.max_its = IF m.isNone THEN @ ELSE m.v,
                 !.current_iteration = 0,
                 !.rel_function_change = Inf]

\* continue_fit(max_its=m), up to the call of _fit: the attributes of the
\* decomposer it leaves behind
continue_fit(self, m) ==
    [self EXCEPT !.max_its = IF m.isNone THEN @ ELSE m.v]

\* load_checkpoint(checkpoint_path, load_it) on the store st.  valid tells
\* whether the loaded components pass _check_valid_components.  The counter
\* is assigned before the group is looked up.
load_checkpoint(self, st, load_it, valid) ==
    IF "final_iteration" \notin DOMAIN st.attrs
    THEN [self EXCEPT !.raised = "ValueError"]
    ELSE LET iteration == IF load_it.isNone THEN st.attrs.final_iteration ELSE load_it.v
         IN  IF iteration \notin DOMAIN st.groups
             THEN [self EXCEPT !.current_iteration = iteration, !.raised = "ValueError"]
             ELSE IF ~valid
             THEN [self EXCEPT !.current_iteration = iteration, !.raised = "ValueError"]
             ELSE [current_iteration |-> iteration,
                   decomposition |-> st.groups[iteration],
                   raised |-> "none"]

\* A logger that has received no call yet.  A logger is abstracted to the
\* number of log calls it received, what the last of them was shown, and the
\* number of write_to_hdf5_group calls it received
NewLogger == [log |-> 0, shown |-> None, write_to_hdf5_group |-> 0]

\* for logger in self.loggers: logger.log(self), where only the first logger
\* is called
log_first(logs, self) ==
    [i \in DOMAIN logs |-> IF i = 1 THEN [logs[i] EXCEPT !.log = @ + 1, !.shown = self]
                           ELSE logs[i]]

\* for logger in self.loggers: logger.log(self); self is the counter, the
\* decomposition and the convergence tracker the logger is shown
log_all(logs, self) ==
    [i \in DOMAIN logs |-> [logs[i] EXCEPT !.log = @ + 1, !.shown = self]]

\* for logger in self.loggers: logger.write_to_hdf5_group(h5)
write_to_hdf5_group(logs) ==
    [i \in DOMAIN logs |-> [logs[i] EXCEPT !.write_to_hdf5_group = @ + 1]]

----------------------------------------------------------------------------
(* The decomposer as a state machine *)

Tolerances == {<<0, 1>>, <<1, 4>>}

MaxItsArgs == {NotGiven} \cup {Given(m) : m \in 0..MaxIts}

InitFit ==
    /\ driver \in {"CP_ALS", "BlockParafac2", "Legacy"}
    /\ max_its \in 0..MaxIts
    /\ checkpoint_frequency \in {-1} \cup 1..MaxFreq
    /\ convergence_tol \in Tolerances
    /\ X = 0
    /\ decomposition = None
    /\ current_iteration = -1
    /\ prev_SSE = 0
    /\ rel_function_change = Inf
    /\ store = [attrs |-> <<>>, groups |-> <<>>]
    /\ writes = <<>>
    /\ loggers = [i \in 1..NumLoggers |-> NewLogger]
    /\ pc = "idle"
    /\ it = -1
    /\ loop_n = 0
    /\ call = [kind |-> "none", n |-> 0, sweeps |-> 0, trace |-> <<>>]
    /\ raised = "none"
    /\ T = NoArray
    /\ factors = <<>>
    /\ mode = 0
    /\ M = NoArray
    /\ out = None
    /\ step = "start"
    /\ weights_arg = None
    /\ kt = None
    /\ calls = 0

\* fit(X, max_its=m): _init_fit, then _fit starts.  The Legacy base class
\* leaves _fit abstract: there the call ends after _init_fit.
Fit ==
    /\ pc # "loop"
    /\ call.n < MaxFitCalls
    /\ \E m \in MaxItsArgs, sse \in 1..MaxSSE :
        LET n == call.n + 1
            r == _init_fit(driver, n, n, X, current_iteration)
            new_max == IF m.isNone THEN max_its ELSE m.v
        IN  /\ X' = r.X
            /\ decomposition' = r.decomposition
            /\ current_iteration' = r.current_iteration
            /\ max_its' = new_max
            /\ call' = [kind |-> "fit", n |-> n, sweeps |-> 0, trace |-> r.trace]
            /\ IF driver = "Legacy"
               THEN /\ pc' = "returned"
                    /\ UNCHANGED <<rel_function_change, prev_SSE, loop_n>>
               ELSE /\ pc' = "loop"
                    /\ rel_function_change' = Inf
                    /\ prev_SSE' = sse
                    /\ loop_n' = loop_range(driver, new_max, r.current_iteration)
    /\ it' = -1
    /\ raised' = "none"
    /\ UNCHANGED <<driver, checkpoint_frequency, convergence_tol, store, writes,
                   loggers>>
    /\ UNCHANGED algVars
    /\ UNCHANGED <<weights_arg, kt, calls>>

\* continue_fit(max_its=m) on a fitted decomposer: only max_its is set
\* before _fit starts
ContinueFit ==
    /\ pc = "returned"
    /\ driver # "Legacy"
    /\ call.n < MaxFitCalls
    /\ \E m \in MaxItsArgs :
        LET self == [X |-> X, decomposition |-> decomposition,
                     current_iteration |-> current_iteration, max_its |-> max_its,
                     prev_SSE |-> prev_SSE, rel_function_change |-> rel_function_change]
            r == continue_fit(self, m)
        IN  /\ X' = r.X
            /\ decomposition' = r.decomposition
            /\ current_iteration' = r.current_iteration
            /\ max_its' = r.max_its
            /\ prev_SSE' = r.prev_SSE
            /\ rel_function_change' = r.rel_function_change
            /\ loop_n' = loop_range(driver, r.max_its, r.current_iteration)
    /\ call' = [kind |-> "continue_fit", n |-> call.n + 1, sweeps |-> 0, trace |-> <<>>]
    /\ pc' = "loop"
    /\ it' = -1
    /\ raised' = "none"
    /\ UNCHANGED <<driver, checkpoint_frequency, convergence_tol, store, writes,
                   loggers>>
    /\ UNCHANGED algVars
    /\ UNCHANGED <<weights_arg, kt, calls>>

\* One pass of the loop body: the factors are updated, the convergence
\* tracker is updated with the new error, then _after_fit_iteration writes
\* the periodic checkpoint and increments the counter
Sweep ==
    /\ pc = "loop"
    /\ it + 1 < loop_n
    /\ ~has_converged(driver, rel_function_change, convergence_tol)
    /\ \E sse \in 1..MaxSSE :
        /\ rel_function_change' = _update_convergence(prev_SSE, sse)
        /\ prev_SSE' = sse
    /\ it' = it + 1
    /\ decomposition' = [decomposition EXCEPT !.sweeps = @ + 1]
    /\ call' = [call EXCEPT !.sweeps = @ + 1]
    /\ LET logged == log_all(loggers, [current_iteration |-> current_iteration,
                                       decomposition |-> decomposition',
                                       rel_function_change |-> rel_function_change'])
       IN  IF periodic_checkpoint_due(current_iteration, checkpoint_frequency)
           THEN LET r == store_checkpoint(store, current_iteration, decomposition', driver)
                IN  /\ store' = r.store
                    /\ raised' = r.raised
                    /\ IF r.raised = "none"
                       THEN /\ writes' = Append(writes, [iteration |-> current_iteration,
                                                         decomposition |-> decomposition'])
                            /\ loggers' = write_to_hdf5_group(logged)
                            /\ current_iteration' = current_iteration + 1
                            /\ pc' = "loop"
                       ELSE /\ pc' = "raised"
                            /\ loggers' = logged
                            /\ UNCHANGED <<writes, current_iteration>>
           ELSE /\ current_iteration' = current_iteration + 1
                /\ loggers' = logged
                /\ UNCHANGED <<store, writes, raised, pc>>
    /\ UNCHANGED <<driver, X, max_its, checkpoint_frequency, convergence_tol, loop_n>>
    /\ UNCHANGED algVars
    /\ UNCHANGED <<weights_arg, kt, calls>>

\* The loop ends, by exhausting its range or by the convergence break, and
\* the statement after the loop decides on the last checkpoint.  In CP_ALS
\* that statement reads the loop variable, which is unbound when the range
\* was empty.
LoopExit ==
    /\ pc = "loop"
    /\ (it + 1 >= loop_n \/ has_converged(driver, rel_function_change, convergence_tol))
    /\ LET loop_it == IF it + 1 < loop_n THEN it + 1 ELSE it
       IN  /\ it' = loop_it
           /\ IF driver = "CP_ALS" /\ loop_it = -1
              THEN /\ pc' = "raised"
                   /\ raised' = "UnboundLocalError"
                   /\ UNCHANGED <<store, writes, loggers>>
              ELSE IF final_checkpoint_due(driver, loop_it, current_iteration,
                                           checkpoint_frequency)
              THEN LET r == store_checkpoint(store, current_iteration, decomposition, driver)
                   IN  /\ store' = r.store
                       /\ raised' = r.raised
                       /\ IF r.raised = "none"
                          THEN /\ writes' = Append(writes, [iteration |-> current_iteration,
                                                            decomposition |-> decomposition])
                               /\ loggers' = write_to_hdf5_group(loggers)
                               /\ pc' = "returned"
                          ELSE /\ pc' = "raised"
                               /\ UNCHANGED <<writes, loggers>>
              ELSE /\ pc' = "returned"
                   /\ UNCHANGED <<store, writes, loggers, raised>>
    /\ UNCHANGED <<driver, X, decomposition, current_iteration, max_its,
                   checkpoint_frequency, convergence_tol, prev_SSE,
                   rel_function_change, loop_n, call>>
    /\ UNCHANGED algVars
    /\ UNCHANGED <<weights_arg, kt, calls>>

LoadIts == {NotGiven} \cup {Given(i) : i \in 0..MaxIts}

\* load_checkpoint(self.checkpoint_path, load_it) between two runs of the loop
LoadCheckpoint ==
    /\ pc \in {"returned", "raised"}
    /\ driver # "Legacy"
    /\ call.kind \in {"fit", "continue_fit"}
    /\ \E load_it \in LoadIts, valid \in BOOLEAN :
        LET self == [current_iteration |-> current_iteration,
                     decomposition |-> decomposition,
                     raised |-> "none"]
            r == load_checkpoint(self, store, load_it, valid)
        IN  /\ current_iteration' = r.current_iteration
            /\ decomposition' = r.decomposition
            /\ raised' = r.raised
            /\ pc' = IF r.raised = "none" THEN "returned" ELSE "raised"
            /\ call' = [kind |-> "load_checkpoint", n |-> call.n, sweeps |-> 0,
                        trace |-> <<>>, load_it |-> load_it, valid |-> valid]
    /\ UNCHANGED <<driver, X, max_its, checkpoint_frequency, convergence_tol, prev_SSE,
                   rel_function_change, store, writes, loggers, it,
                   loop_n>>
    /\ UNCHANGED algVars
    /\ UNCHANGED <<weights_arg, kt, calls>>

NextFit ==
    \/ Fit
    \/ ContinueFit
    \/ Sweep
    \/ LoopExit
    \/ LoadCheckpoint

SpecFit == InitFit /\ [][NextFit]_vars

----------------------------------------------------------------------------
(* decomposition/cp.py: BaseCP.init_components and the initialisation      *)
(* methods.  self is the record of the attributes the methods read: X,     *)
(* rank, init and the decomposition installed so far.                      *)

Min(seq) == CHOOSE x \in {seq[i] : i \in DOMAIN seq} : \A i \in DOMAIN seq : x <= seq[i]

Max(seq) == CHOOSE x \in {seq[i] : i \in DOMAIN seq} : \A i \in DOMAIN seq : x >= seq[i]

\* A[:, :k] for k >= 0: the first k columns, or all of them if there are fewer
ColSlice(A, k) ==
    LET c == IF k < Cols(A) THEN k ELSE Cols(A)
    IN  [shape |-> <<Rows(A), c>>,
         data  |-> [p \in 1..(Rows(A) * c) |->
                        MatEntry(A, (p - 1) \div c, (p - 1) % c)]]

\* u of np.linalg.svd(A): a square orthogonal matrix with as many rows as A
\* (full_matrices is left at True); here the identity
svd_u(A) ==
    [shape |-> <<Rows(A), Rows(A)>>,
     data  |-> [p \in 1..(Rows(A) * Rows(A)) |->
                    IF (p - 1) \div Rows(A) = (p - 1) % Rows(A) THEN 1 ELSE 0]]

\* A faulty guard: the rank is compared with the largest dimension
svd_rank_exceeds_largest(rank, shape) == rank > Max(shape)

\* The guard of init_svd: self.rank > min(self.X.shape)
svd_rank_too_large(rank, shape) == rank > Min(shape)

\* init_svd: the decomposition it installs, or the exception it raises
init_svd(self) ==
    IF svd_rank_too_large(self.rank, self.X.shape)
    THEN [raised |-> "ValueError", decomposition |-> self.decomposition]
    ELSE LET factor_matrices ==
                [i \in 1..Ndim(self.X) |->
                    ColSlice(svd_u(unfold(self.X, i - 1)), self.rank)]
             r == KruskalTensor(factor_matrices, None)
         IN  [raised |-> r.raised,
              decomposition |-> IF r.raised = "none" THEN r.obj ELSE self.decomposition]

\* KruskalTensor.random_init(sizes, rank): random factor matrices (here one
\* entry per column), scaled to unit columns, with unit weights
random_init(sizes, rank) ==
    normalize_components(KruskalTensor(AxisFactors(sizes, rank), None).obj, FALSE)

init_random(self) ==
    [raised |-> "none", decomposition |-> random_init(self.X.shape, self.rank)]

\* _check_valid_components: "none" or the exception
_check_valid_components(self, dec) ==
    IF \E i \in 1..Len(dec.factor_matrices) :
            \/ Cols(dec.factor_matrices[i]) # self.rank
            \/ i > Ndim(self.X)
            \/ Rows(dec.factor_matrices[i]) # self.X.shape[i]
    THEN IF \E i \in 1..Len(dec.factor_matrices) :
                /\ \A j \in 1..(i - 1) :
                        /\ Cols(dec.factor_matrices[j]) = self.rank
                        /\ j <= Ndim(self.X)
                        /\ Rows(dec.factor_matrices[j]) = self.X.shape[j]
                /\ Cols(dec.factor_matrices[i]) = self.rank
                /\ i > Ndim(self.X)
         THEN "IndexError"
         ELSE "ValueError"
    ELSE "none"

\* BaseCP.init_components(initial_decomposition): `raise Warning(...)` raises
\* the exception class Warning
BaseCP_init_components(self, initial_decomposition) ==
    IF initial_decomposition # None /\ self.init \notin {"precomputed", "from_checkpoint"}
    THEN [raised |-> "Warning", decomposition |-> self.decomposition]
    ELSE IF self.init = "random" THEN init_random(self)
    ELSE IF self.init = "svd" THEN init_svd(self)
    ELSE IF self.init = "precomputed"
    THEN IF initial_decomposition = None
         THEN [raised |-> "AttributeError", decomposition |-> self.decomposition]
         ELSE LET v == _check_valid_components(self, initial_decomposition)
              IN  [raised |-> v,
                   decomposition |-> IF v = "none" THEN initial_decomposition
                                     ELSE self.decomposition]
    ELSE [raised |-> "ValueError", decomposition |-> self.decomposition]

----------------------------------------------------------------------------
(* fit of a BaseCP decomposer up to the start of the loop *)

InitMethods == {"random", "svd", "precomputed", "nonsense"}

\* Targets of two modes, and of three modes whose third is as long as the first
InitShapes ==
    {<<a, b>> : a \in 1..MaxDim, b \in 1..MaxDim}
        \cup {<<a, b, a>> : a \in 1..MaxDim, b \in 1..MaxDim}

\* initial_decomposition arguments for a target of the given shape: None, a
\* decomposition that fits the target and the rank, one of another rank
InitialDecompositions(shape, rank) ==
    {None,
     KruskalTensor(GenFactors(shape, rank), None).obj,
     KruskalTensor(GenFactors(shape, rank + 1), None).obj}

\* A BaseCP decomposer after construction; call holds its rank and init
InitInit ==
    /\ driver = "CP_ALS"
    /\ \E rank \in 1..(MaxRank + 1), init \in InitMethods :
        call = [kind |-> "none", n |-> 0, sweeps |-> 0, trace |-> <<>>,
                rank |-> rank, init |-> init, initial_decomposition |-> None]
    /\ X = 0
    /\ decomposition = None
    /\ current_iteration = -1
    /\ max_its = MaxIts
    /\ checkpoint_frequency = -1
    /\ convergence_tol = <<0, 1>>
    /\ prev_SSE = 0
    /\ rel_function_change = Inf
    /\ store = [attrs |-> <<>>, groups |-> <<>>]
    /\ writes = <<>>
    /\ loggers = <<>>
    /\ pc = "idle"
    /\ it = -1
    /\ loop_n = 0
    /\ T = NoArray
    /\ factors = <<>>
    /\ mode = 0
    /\ M = NoArray
    /\ out = None
    /\ step = "start"
    /\ weights_arg = None
    /\ kt = None
    /\ raised = "none"
    /\ calls = 0

\* fit(X, initial_decomposition=...) up to the return of _init_fit: the
\* counter is reset, the target is set and init_components is called; an
\* exception ends the call of fit, otherwise _fit follows
FitInitComponents ==
    /\ call.n < MaxFitCalls
    /\ \E sh \in InitShapes :
        \E initial \in InitialDecompositions(sh, call.rank) :
            LET x == GenArray(sh)
                self == [X |-> x, rank |-> call.rank, init |-> call.init,
                         decomposition |-> decomposition]
                r == BaseCP_init_components(self, initial)
            IN  /\ T' = x
                /\ X' = x
                /\ current_iteration' = 0
                /\ decomposition' = r.decomposition
                /\ raised' = r.raised
                /\ pc' = IF r.raised = "none" THEN "initialised" ELSE "raised"
                /\ call' = [call EXCEPT !.kind = "fit", !.n = @ + 1,
                                        !.initial_decomposition = initial]
    /\ step' = "init_components"
    /\ UNCHANGED <<driver, max_its, checkpoint_frequency, convergence_tol, prev_SSE,
                   rel_function_change, store, writes, loggers, it,
                   loop_n>>
    /\ UNCHANGED <<factors, mode, M, out>>
    /\ UNCHANGED <<weights_arg, kt, calls>>

NextInit == FitInitComponents

SpecInit == InitInit /\ [][NextInit]_vars

----------------------------------------------------------------------------
(* CMTF_ALS as a state machine *)

\* coupling_modes: one or two couplings along the modes of the tensor
CouplingModes(n) == UNION {[1..k -> 0..(n - 1)] : k \in 1..2}

\* The decomposer after CMTF_ALS._init_fit on a three-mode tensor
InitCMTF ==
    /\ driver = "CMTF_ALS"
    /\ \E sh \in [1..3 -> 1..MaxDim], rank \in 1..MaxRank, cm \in CouplingModes(3) :
        decomposition = CoupledTensors_random_init(
                            sh, rank,
                            [i \in 1..Len(cm) |-> <<sh[cm[i] + 1], MaxDim>>], cm)
    /\ \E nn \in [1..3 -> BOOLEAN], penalty \in 0..1 :
        call = [kind |-> "fit", n |-> 1, sweeps |-> 0, trace |-> <<>>,
                non_negativity_constraints |-> nn, penalty |-> penalty]
    /\ X = 1
    /\ current_iteration = 0
    /\ max_its = MaxIts
    /\ checkpoint_frequency = -1
    /\ convergence_tol = <<0, 1>>
    /\ prev_SSE = 0
    /\ rel_function_change = Inf
    /\ store = [attrs |-> <<>>, groups |-> <<>>]
    /\ writes = <<>>
    /\ loggers = <<>>
    /\ pc = "loop"
    /\ it = -1
    /\ loop_n = MaxIts
    /\ T = NoArray
    /\ factors = <<>>
    /\ mode = 0
    /\ M = NoArray
    /\ out = None
    /\ step = "start"
    /\ weights_arg = None
    /\ kt = None
    /\ raised = "none"
    /\ calls = 0

\* One sweep of the fit loop of CMTF_ALS
CmtfUpdateAlsFactors ==
    /\ pc = "loop"
    /\ call.sweeps < max_its
    /\ decomposition' = cmtf_update_als_factors(decomposition,
                            call.non_negativity_constraints, call.penalty)
    /\ call' = [call EXCEPT !.sweeps = @ + 1]
    /\ it' = it + 1
    /\ current_iteration' = current_iteration + 1
    /\ step' = "sweep"
    /\ UNCHANGED <<driver, X, max_its, checkpoint_frequency, convergence_tol, prev_SSE,
                   rel_function_change, store, writes, loggers, pc,
                   loop_n>>
    /\ UNCHANGED <<T, factors, mode, M, out>>
    /\ UNCHANGED ktVars

NextCMTF == CmtfUpdateAlsFactors

SpecCMTF == InitCMTF /\ [][NextCMTF]_vars

----------------------------------------------------------------------------
(* base.py: EvolvingTensor.  factor_matrices is the list <<A, Bs, C>> where *)
(* Bs is the list of the mode-1 factors B_k, one per slice.                 *)

\* np.array(fm) for the list of the B_k: a list of matrices of different
\* shapes is no rectangular array
IsRagged(Bs) == \E i, j \in DOMAIN Bs : Bs[i].shape # Bs[j].shape

\* self.factor_matrices[2][k] * self.factor_matrices[1][k]: row k of C is
\* broadcast over the rows of B_k
scores(C, Bk, k) ==
    [shape |-> Bk.shape,
     data  |-> [p \in 1..(Rows(Bk) * Cols(Bk)) |->
                    MatEntry(C, k, (p - 1) % Cols(Bk)) * Bk.data[p]]]

\* construct_slice(k), k counted from 0: loadings @ scores, which numpy
\* refuses unless scores has as many rows as loadings has columns
construct_slice(self, k) ==
    LET loadings == self.factor_matrices[1]
        sc == scores(self.factor_matrices[3], self.factor_matrices[2][k + 1], k)
    IN  IF Cols(loadings) # Rows(sc)
        THEN [raised |-> "ValueError", value |-> None]
        ELSE [raised |-> "none", value |-> matmul(loadings, sc)]

\* construct_slices(): the list of all slices, or the first exception
construct_slices(self) ==
    LET K == Len(self.factor_matrices[2])
        results == [k \in 1..K |-> construct_slice(self, k - 1)]
    IN  IF \E k \in 1..K : results[k].raised # "none"
        THEN [raised |-> "ValueError", value |-> None]
        ELSE [raised |-> "none", value |-> [k \in 1..K |-> results[k].value]]

\* EvolvingTensor(factor_matrices, all_same_size): the outcomes of __init__.
\* With all_same_size the ragged list of the B_k is handed to np.array, which
\* raises ValueError or builds an array of objects, depending on the numpy
\* version; then slice_shapes reads self.factor_matrices.shape, and
\* self.factor_matrices is a list
EvolvingTensor(factor_matrices, all_same_size) ==
    (IF all_same_size /\ IsRagged(factor_matrices[2])
     THEN {[raised |-> "ValueError", obj |-> None]}
     ELSE {})
        \cup {[raised |-> "AttributeError", obj |-> None]}

----------------------------------------------------------------------------
(* EvolvingTensor as a state machine *)

\* The numbers of columns of the slices: two or three slices
SliceWidths == UNION {[1..K -> 1..(MaxDim + 1)] : K \in 2..3}

\* <<A, Bs, C>> for slices of I rows and the given widths
EvolvingFactors(I, widths, rank) ==
    <<GenFactor(I, rank, 0),
      [k \in 1..Len(widths) |-> GenFactor(widths[k], rank, k)],
      AxisFactor(Len(widths), rank, 1)>>

InitET ==
    /\ \E I \in 1..MaxDim, widths \in SliceWidths, rank \in 1..MaxRank :
        factors = EvolvingFactors(I, widths, rank)
    /\ weights_arg \in BOOLEAN
    /\ T = NoArray
    /\ mode = 0
    /\ M = NoArray
    /\ out = None
    /\ step = "start"
    /\ kt = None
    /\ raised = "none"
    /\ calls = 0
    /\ NoDecomposer

\* EvolvingTensor(factors, all_same_size=weights_arg).construct_slices()
ConstructSlices ==
    /\ step = "start"
    /\ \E r \in EvolvingTensor(factors, weights_arg) :
        IF r.raised # "none"
        THEN /\ kt' = None
             /\ raised' = r.raised
             /\ out' = None
        ELSE LET s == construct_slices(r.obj)
             IN  /\ kt' = r.obj
                 /\ raised' = s.raised
                 /\ out' = s.value
    /\ step' = "construct_slices"
    /\ calls' = calls + 1
    /\ UNCHANGED <<T, factors, mode, M, weights_arg>>
    /\ UNCHANGED fitVars

NextET == ConstructSlices

SpecET == InitET /\ [][NextET]_vars

----------------------------------------------------------------------------
(* The sweep-control loops of CP_ALS and BlockParafac2 side by side: two   *)
(* decomposers, first a CP_ALS and second a BlockParafac2, receive the     *)
(* same calls and the same error after each sweep.  Each decomposer        *)
(* variable holds the pair of the two decomposers' values.  Checkpointing  *)
(* is off (checkpoint_frequency = -1) and there are no loggers.            *)

Drivers == <<"CP_ALS", "BlockParafac2">>

\* The pair of the values of one attribute
Both(selves, attribute) == <<selves[1][attribute], selves[2][attribute]>>

\* _init_fit followed by the start of _fit
fit_start(d, self, n, x, m, sse) ==
    LET r == base_init_fit(n, x, 0)
        new_max == IF m.isNone THEN self.max_its ELSE m.v
    IN  [pc |-> "loop", it |-> -1,
         loop_n |-> loop_range(d, new_max, r.current_iteration),
         current_iteration |-> r.current_iteration,
         max_its |-> new_max,
         decomposition |-> r.decomposition,
         prev_SSE |-> sse,
         rel_function_change |-> Inf,
         raised |-> "none", sweeps |-> 0, stopped |-> "running"]

\* continue_fit(max_its=m) followed by the start of _fit
continue_fit_start(d, self, m) ==
    LET s == continue_fit(self, m)
    IN  [s EXCEPT !.pc = "loop", !.it = -1,
                  !.loop_n = loop_range(d, s.max_its, s.current_iteration),
                  !.raised = "none", !.sweeps = 0, !.stopped = "running"]

\* One pass of the for statement of _fit: a sweep with the error sse after
\* it, or the end of the loop and the statement after it
loop_step(d, self, tol, frequency, sse) ==
    IF self.pc # "loop" THEN self
    ELSE IF self.it + 1 < self.loop_n /\ ~has_converged(d, self.rel_function_change, tol)
    THEN [self EXCEPT !.it = @ + 1,
                      !.rel_function_change = _update_convergence(self.prev_SSE, sse),
                      !.prev_SSE = sse,
                      !.decomposition.sweeps = @ + 1,
                      !.sweeps = @ + 1,
                      !.current_iteration = @ + 1]
    ELSE LET loop_it == IF self.it + 1 < self.loop_n THEN self.it + 1 ELSE self.it
             why == IF self.it + 1 < self.loop_n THEN "converged" ELSE "exhausted"
         IN  IF d = "CP_ALS" /\ loop_it = -1
             THEN [self EXCEPT !.it = loop_it, !.pc = "raised",
                               !.raised = "UnboundLocalError", !.stopped = "raised"]
             ELSE IF final_checkpoint_due(d, loop_it, self.current_iteration, frequency)
             THEN [self EXCEPT !.it = loop_it, !.pc = "raised",
                               !.raised = "checkpoint", !.stopped = "raised"]
             ELSE [self EXCEPT !.it = loop_it, !.pc = "returned", !.stopped = why]

\* The two decomposers as the variables hold them
Selves ==
    [i \in 1..2 |->
        [pc |-> pc[i], it |-> it[i], loop_n |-> loop_n[i],
         current_iteration |-> current_iteration[i],
         max_its |-> max_its[i],
         decomposition |-> decomposition[i],
         prev_SSE |-> prev_SSE[i],
         rel_function_change |-> rel_function_change[i],
         raised |-> raised[i], sweeps |-> call.sweeps[i], stopped |-> call.stopped[i]]]

InitLoop ==
    /\ driver = Drivers
    /\ convergence_tol \in Tolerances
    /\ checkpoint_frequency = -1
    /\ X = 0
    /\ decomposition = <<None, None>>
    /\ current_iteration = <<-1, -1>>
    /\ max_its = <<0, 0>>
    /\ prev_SSE = <<0, 0>>
    /\ rel_function_change = <<Inf, Inf>>
    /\ store = [attrs |-> <<>>, groups |-> <<>>]
    /\ writes = <<>>
    /\ loggers = <<>>
    /\ pc = <<"idle", "idle">>
    /\ it = <<-1, -1>>
    /\ loop_n = <<0, 0>>
    /\ call = [kind |-> "none", n |-> 0, sweeps |-> <<0, 0>>, trace |-> <<>>,
               stopped |-> <<"idle", "idle">>]
    /\ raised = <<"none", "none">>
    /\ T = NoArray
    /\ factors = <<>>
    /\ mode = 0
    /\ M = NoArray
    /\ out = None
    /\ step = "start"
    /\ weights_arg = None
    /\ kt = None
    /\ calls = 0

\* The frame of the three actions, and the variables a pair of new
\* decomposer values determines
LoopVarsFrom(new) ==
    /\ pc' = Both(new, "pc")
    /\ it' = Both(new, "it")
    /\ loop_n' = Both(new, "loop_n")
    /\ current_iteration' = Both(new, "current_iteration")
    /\ max_its' = Both(new, "max_its")
    /\ decomposition' = Both(new, "decomposition")
    /\ prev_SSE' = Both(new, "prev_SSE")
    /\ rel_function_change' = Both(new, "rel_function_change")
    /\ raised' = Both(new, "raised")
    /\ UNCHANGED <<driver, checkpoint_frequency, convergence_tol, store, writes, loggers>>
    /\ UNCHANGED algVars
    /\ UNCHANGED <<weights_arg, kt, calls>>

\* fit(X, max_its=m) on both decomposers
FitBoth ==
    /\ \A i \in 1..2 : pc[i] # "loop"
    /\ call.n < MaxFitCalls
    /\ \E m \in {Given(k) : k \in 0..MaxIts}, sse \in 1..MaxSSE :
        LET new == [i \in 1..2 |->
                        fit_start(driver[i], Selves[i], call.n + 1, call.n + 1, m, sse)]
        IN  /\ LoopVarsFrom(new)
            /\ X' = call.n + 1
            /\ call' = [kind |-> "fit", n |-> call.n + 1, sweeps |-> Both(new, "sweeps"),
                        trace |-> <<>>, stopped |-> Both(new, "stopped")]

\* continue_fit(max_its=m) on both decomposers, after both have returned
ContinueFitBoth ==
    /\ \A i \in 1..2 : pc[i] = "returned"
    /\ call.n < MaxFitCalls
    /\ \E m \in MaxItsArgs :
        LET new == [i \in 1..2 |-> continue_fit_start(driver[i], Selves[i], m)]
        IN  /\ LoopVarsFrom(new)
            /\ X' = X
            /\ call' = [kind |-> "continue_fit", n |-> call.n + 1,
                        sweeps |-> Both(new, "sweeps"), trace |-> <<>>,
                        stopped |-> Both(new, "stopped")]

\* The next pass of each loop that is still running, with the same error
StepBoth ==
    /\ \E i \in 1..2 : pc[i] = "loop"
    /\ \E sse \in 1..MaxSSE :
        LET new == [i \in 1..2 |->
                        loop_step(driver[i], Selves[i], convergence_tol,
                                  checkpoint_frequency, sse)]
        IN  /\ LoopVarsFrom(new)
            /\ X' = X
            /\ call' = [call EXCEPT !.sweeps = Both(new, "sweeps"),
                                    !.stopped = Both(new, "stopped")]

NextLoop ==
    \/ FitBoth
    \/ ContinueFitBoth
    \/ StepBoth

SpecLoop == InitLoop /\ [][NextLoop]_vars

----------------------------------------------------------------------------
(* block_parafac2.py: Parafac2ADMM.update_decomposition, pass by pass.     *)
(* The decomposition is abstracted to the list of the evolving factors     *)
(* B_k = P_k @ blueprint_B, held in factors; M holds aux_fms and out holds *)
(* dual_variables, one matrix per slice.  What update_projections and      *)
(* update_blueprint make of the B_k is an input.                           *)

\* np.linalg.norm(A)**2
SquaredNorm(A) == Sum([p \in DOMAIN A.data |-> A.data[p] * A.data[p]])

\* _duality_gap(fms, aux_fms)
_duality_gap(fms, aux_fms) ==
    Sum([k \in DOMAIN fms |-> SquaredNorm(MatSub(fms[k], aux_fms[k]))])

\* has_converged(decomposition, aux_fms) for a tolerance tol
pf2_has_converged(fms, aux_fms, tol) == _duality_gap(fms, aux_fms) < tol

\* prox_update(x, out)
prox_update(x, non_negativity) == IF non_negativity THEN maximum0(x) ELSE x

\* init_constraint(init_P, init_B)
init_constraint(fms, non_negativity) ==
    [k \in DOMAIN fms |-> prox_update(fms[k], non_negativity)]

\* update_constraint(decomposition, aux_fms, dual_variables)
pf2_update_constraint(fms, dual_variables, non_negativity) ==
    [k \in DOMAIN fms |-> prox_update(MatAdd(fms[k], dual_variables[k]), non_negativity)]

\* update_dual(decomposition, aux_fms, dual_variables):
\* dual_variable -= B_k - aux_fm
pf2_update_dual(fms, aux_fms, dual_variables) ==
    [k \in DOMAIN fms |-> MatSub(dual_variables[k], MatSub(fms[k], aux_fms[k]))]

\* The B_k after update_projections and update_blueprint: the target
\* aux_fm - dual_variable of the regularisation, the B_k as they were, or
\* the negated B_k as an outcome unrelated to both
updated_fms(fms, aux_fms, dual_variables, choice) ==
    [k \in DOMAIN fms |->
        IF choice = "constraint" THEN MatSub(aux_fms[k], dual_variables[k])
        ELSE IF choice = "lstsq" THEN fms[k]
        ELSE MatSub(zeros(Rows(fms[k]), Cols(fms[k])), fms[k])]

\* The tolerance: entries are whole numbers, so a gap below 1 is a gap of 0
AdmmTol == 1

\* Two slices of one to MaxDim rows each
InitPf2 ==
    /\ \E widths \in [1..2 -> 1..MaxDim], rank \in 1..MaxRank :
        factors = [k \in 1..2 |-> GenFactor(widths[k], rank, k - 1)]
    /\ weights_arg = None
    /\ T = NoArray
    /\ mode = 1
    /\ M = <<>>
    /\ out = <<>>
    /\ step = "start"
    /\ kt = None
    /\ raised = "none"
    /\ calls = 0
    /\ driver = "none"
    /\ X = 0
    /\ decomposition = None
    /\ current_iteration = -1
    /\ max_its = 0
    /\ checkpoint_frequency = -1
    /\ convergence_tol = <<0, 1>>
    /\ prev_SSE = 0
    /\ rel_function_change = Inf
    /\ store = [attrs |-> <<>>, groups |-> <<>>]
    /\ writes = <<>>
    /\ loggers = <<>>
    /\ pc = "idle"
    /\ it = -1
    /\ loop_n = 0
    /\ \E non_negativity \in BOOLEAN :
        call = [kind |-> "none", n |-> 0, sweeps |-> 0, trace |-> <<>>,
                non_negativity |-> non_negativity]

\* update_decomposition up to the loop; call.trace will hold the value of
\* each has_converged call
Pf2AdmmBegin ==
    /\ pc \in {"idle", "returned"}
    /\ calls < MaxCalls
    /\ \E max_it \in 0..MaxAdmmIt : loop_n' = max_it
    /\ M' = init_constraint(factors, call.non_negativity)
    /\ out' = [k \in DOMAIN factors |-> zeros(Rows(factors[k]), Cols(factors[k]))]
    /\ it' = -1
    /\ pc' = "loop"
    /\ step' = "Parafac2ADMM_init"
    /\ calls' = calls + 1
    /\ call' = [call EXCEPT !.kind = "update_decomposition", !.n = @ + 1,
                            !.sweeps = 0, !.trace = <<>>]
    /\ UNCHANGED <<T, factors, mode, weights_arg, kt, raised>>
    /\ UNCHANGED <<driver, X, decomposition, current_iteration, max_its,
                   checkpoint_frequency, convergence_tol, prev_SSE,
                   rel_function_change, store, writes, loggers>>

\* One pass of the for loop: the projections and the blueprint are updated,
\* has_converged is called and its value dropped, then the constraint and
\* the dual variables are updated
Pf2AdmmPass ==
    /\ pc = "loop"
    /\ it + 1 < loop_n
    /\ \E choice \in ProxChoices :
        LET fms == updated_fms(factors, M, out, choice)
            converged == pf2_has_converged(fms, M, AdmmTol)
            aux_fms == pf2_update_constraint(fms, out, call.non_negativity)
        IN  /\ factors' = fms
            /\ M' = aux_fms
            /\ out' = pf2_update_dual(fms, aux_fms, out)
            /\ call' = [call EXCEPT !.sweeps = @ + 1, !.trace = Append(@, converged)]
    /\ it' = it + 1
    /\ step' = "Parafac2ADMM_pass"
    /\ UNCHANGED <<T, mode, weights_arg, kt, raised, calls>>
    /\ UNCHANGED <<driver, X, decomposition, current_iteration, max_its,
                   checkpoint_frequency, convergence_tol, prev_SSE,
                   rel_function_change, store, writes, loggers, pc, loop_n>>

\* The range is exhausted and update_decomposition returns
Pf2AdmmEnd ==
    /\ pc = "loop"
    /\ it + 1 >= loop_n
    /\ pc' = "returned"
    /\ step' = "Parafac2ADMM_return"
    /\ UNCHANGED <<T, factors, mode, M, out, weights_arg, kt, raised, calls>>
    /\ UNCHANGED <<driver, X, decomposition, current_iteration, max_its,
                   checkpoint_frequency, convergence_tol, prev_SSE,
                   rel_function_change, store, writes, loggers, it, loop_n, call>>

NextPf2 ==
    \/ Pf2AdmmBegin
    \/ Pf2AdmmPass
    \/ Pf2AdmmEnd

SpecPf2 == InitPf2 /\ [][NextPf2]_vars

----------------------------------------------------------------------------
(* block_parafac2.py: Parafac2RLS.update_decomposition.  The solvers       *)
(* (orthogonal_solve, rightsolve) are not evaluated: every array is a      *)
(* term that records its name, how often it has been rewritten, and the    *)
(* arrays the last computation read, so that the order and the data flow   *)
(* of the updates can be checked.                                          *)

Term(name, slice, version, args) ==
    [name |-> name, slice |-> slice, version |-> version, args |-> args]

\* What a computation that read the array t has seen
Id(t) == <<t.name, t.slice, t.version>>

\* The k-th slice of the data, k counted from 0
DataSlice(k) == Term("X", k, 0, <<>>)

\* The result of a computation written into the array old (old[:] = ...)
Rewritten(old, args) == [old EXCEPT !.version = @ + 1, !.args = args]

\* update_projections: projection_matrices[k][:] =
\* orthogonal_solve((C[k]*A) @ blueprint_B.T, X[k]).T for every slice k
update_projections(K, dec) ==
    [dec EXCEPT !.projection_matrices =
        [k \in 1..K |->
            Rewritten(dec.projection_matrices[k],
                      <<Id(dec.A), Id(dec.blueprint_B), Id(dec.C), Id(DataSlice(k - 1))>>)]]

\* compute_projected_X(projection_matrices, X, out=projected_X): the stack
\* of the P_k.T @ X_k, written into out when out is given
compute_projected_X(projection_matrices, K, projected_X) ==
    LET args == [k \in 1..K |-> Id(projection_matrices[k])]
                    \o [k \in 1..K |-> Id(DataSlice(k - 1))]
    IN  IF projected_X = None THEN Term("projected_X", 0, 1, args)
        ELSE Rewritten(projected_X, args)

\* RLS.update_decomposition(self, X=projected_X, decomposition=ktensor):
\* the factor of self.mode is rewritten with rightsolve(lhs, rhs), where lhs
\* reads the other factors and rhs reads X and the factors
rls_solution(kruskal, m, data) ==
    Rewritten(kruskal.factor_matrices[m],
              [n \in 1..Len(kruskal.factor_matrices) |-> Id(kruskal.factor_matrices[n])]
                  \o <<Id(data)>>)

\* A faulty update: the blueprint is solved against the projected array of
\* before the call
Parafac2RLS_update_stale(m, K, dec, projected_X, should_update_projections) ==
    LET d1 == IF should_update_projections THEN update_projections(K, dec) ELSE dec
        p1 == IF should_update_projections \/ projected_X = None
              THEN compute_projected_X(d1.projection_matrices, K, projected_X)
              ELSE projected_X
        stale == IF projected_X = None THEN p1 ELSE projected_X
        kruskal == [factor_matrices |-> <<d1.A, d1.blueprint_B, d1.C>>]
        solved == RLS_update_decomposition(kruskal, m, rls_solution(kruskal, m, stale))
    IN  [decomposition |-> [d1 EXCEPT !.A = solved.factor_matrices[1],
                                      !.blueprint_B = solved.factor_matrices[2],
                                      !.C = solved.factor_matrices[3]],
         projected_X |-> p1]

\* Parafac2RLS.update_decomposition(X, decomposition, projected_X,
\* should_update_projections); m is self.mode + 1.  The KruskalTensor is
\* built on the arrays of the decomposition, so the in-place write of RLS is
\* a write to the decomposition
Parafac2RLS_update_decomposition(m, K, dec, projected_X, should_update_projections) ==
    LET d1 == IF should_update_projections THEN update_projections(K, dec) ELSE dec
        p1 == IF should_update_projections \/ projected_X = None
              THEN compute_projected_X(d1.projection_matrices, K, projected_X)
              ELSE projected_X
        kruskal == [factor_matrices |-> <<d1.A, d1.blueprint_B, d1.C>>]
        solved == RLS_update_decomposition(kruskal, m, rls_solution(kruskal, m, p1))
    IN  [decomposition |-> [d1 EXCEPT !.A = solved.factor_matrices[1],
                                      !.blueprint_B = solved.factor_matrices[2],
                                      !.C = solved.factor_matrices[3]],
         projected_X |-> p1]

\* BaseParafac2SubProblem.mode
Parafac2Mode == 1

\* The largest number of slices of the data
MaxSlices == 4

\* A Parafac2 decomposition of X slices, never updated, and no projected
\* array yet
InitPf2Rls ==
    /\ X \in 1..MaxSlices
    /\ decomposition =
            [A |-> Term("A", 0, 0, <<>>),
             blueprint_B |-> Term("blueprint_B", 0, 0, <<>>),
             C |-> Term("C", 0, 0, <<>>),
             projection_matrices |-> [k \in 1..X |-> Term("P", k - 1, 0, <<>>)]]
    /\ M = None
    /\ mode = Parafac2Mode
    /\ driver = "none"
    /\ current_iteration = -1
    /\ max_its = 0
    /\ checkpoint_frequency = -1
    /\ convergence_tol = <<0, 1>>
    /\ prev_SSE = 0
    /\ rel_function_change = Inf
    /\ store = [attrs |-> <<>>, groups |-> <<>>]
    /\ writes = <<>>
    /\ loggers = <<>>
    /\ pc = "idle"
    /\ it = -1
    /\ loop_n = 0
    /\ call = [kind |-> "none", n |-> 0, sweeps |-> 0, trace |-> <<>>]
    /\ T = NoArray
    /\ factors = <<>>
    /\ out = None
    /\ step = "start"
    /\ weights_arg = None
    /\ kt = None
    /\ raised = "none"
    /\ calls = 0

\* update_decomposition(X, decomposition, projected_X, should_update_projections)
\* where the caller hands over the projected array it holds, or None
Pf2RlsUpdateDecomposition ==
    /\ calls < MaxCalls
    /\ \E should_update_projections \in BOOLEAN, projected_X \in {None, M} :
        LET r == Parafac2RLS_update_decomposition(mode + 1, X, decomposition, projected_X,
                                                  should_update_projections)
        IN  /\ decomposition' = r.decomposition
            /\ M' = r.projected_X
            /\ call' = [kind |-> "update_decomposition", n |-> call.n + 1, sweeps |-> 0,
                        trace |-> <<>>,
                        should_update_projections |-> should_update_projections,
                        projected_X |-> projected_X]
    /\ step' = "Parafac2RLS"
    /\ calls' = calls + 1
    /\ UNCHANGED <<T, factors, mode, out, weights_arg, kt, raised>>
    /\ UNCHANGED <<driver, X, current_iteration, max_its, checkpoint_frequency,
                   convergence_tol, prev_SSE, rel_function_change, store, writes,
                   loggers, pc, it, loop_n>>

NextPf2Rls == Pf2RlsUpdateDecomposition

SpecPf2Rls == InitPf2Rls /\ [][NextPf2Rls]_vars

----------------------------------------------------------------------------
(* decomposition/cmtf2.py: the imputation of the coupled matrices.  A      *)
(* matrix is a sequence of rows; an entry is a fraction                    *)
(* <<numerator, denominator>>, np.nan being <<0, 0>>.  An imputation axis  *)
(* is None (NotGiven) or an integer (Given).                               *)

np_nan == <<0, 0>>

MatRows == {<<<<0, 1>>, <<2, 1>>>>, <<np_nan, <<2, 1>>>>, <<<<0, 1>>, np_nan>>, <<np_nan, np_nan>>}

\* The coupled matrices handed to fit: two rows each
ImputeMatrices == [1..2 -> MatRows]

\* The most coupled matrices in one call
MaxMatrices == 2

\* The axes a caller may pass for one matrix
ImputeAxes == {NotGiven, Given(0), Given(1), Given(2)}

RECURSIVE NanSum(_)
NanSum(s) ==
    IF s = <<>> THEN <<0, 0>>
    ELSE LET rest == NanSum(Tail(s))
         IN  IF Head(s) = np_nan THEN rest
             ELSE <<rest[1] + Head(s)[1], rest[2] + 1>>

\* np.nanmean of a vector: the mean of the entries that are not nan, nan
\* when there is none
nanmean_vector(s) == IF NanSum(s)[2] = 0 THEN np_nan ELSE NanSum(s)

\* np.nanmean(matrix, axis=axis): axis 0 gives one mean per column, axis 1
\* one mean per row
nanmean(matrix, axis) ==
    IF axis = 0
    THEN [j \in 1..Len(matrix[1]) |-> nanmean_vector([i \in 1..Len(matrix) |-> matrix[i][j]])]
    ELSE [i \in 1..Len(matrix) |-> nanmean_vector(matrix[i])]

\* coupled_matrices[i][inds] = np.take(axis_means, inds[0 if axis==1 else 1])
mean_impute(matrix, axis) ==
    LET axis_means == nanmean(matrix, axis)
    IN  [i \in 1..Len(matrix) |->
            [j \in 1..Len(matrix[i]) |->
                IF matrix[i][j] = np_nan
                THEN axis_means[IF axis = 1 THEN i ELSE j]
                ELSE matrix[i][j]]]

\* The check the error message and the docstring describe: 0, 1 and None
\* pass
axes_valid_with_none(axis) ==
    \A i \in 1..Len(axis) : axis[i].isNone \/ axis[i].v = 0 \/ axis[i].v = 1

\* all(ax == 0 or ax==1 for ax in axis)
axes_valid(axis) ==
    \A i \in 1..Len(axis) : ~axis[i].isNone /\ (axis[i].v = 0 \/ axis[i].v = 1)

\* CMTF_ALS._init_impute_matrices_missing(axis): the outcome and the
\* coupled matrices afterwards
_init_impute_matrices_missing(coupled_matrices, axis) ==
    IF Len(axis) # Len(coupled_matrices)
    THEN [raised |-> "Exception", coupled_matrices |-> coupled_matrices]
    ELSE IF ~axes_valid(axis)
    THEN [raised |-> "ValueError", coupled_matrices |-> coupled_matrices]
    ELSE [raised |-> "none",
          coupled_matrices |->
            [i \in 1..Len(coupled_matrices) |->
                IF axis[i].isNone THEN coupled_matrices[i]
                ELSE mean_impute(coupled_matrices[i], axis[i].v)]]

\* A CMTF_ALS whose coupled_matrices (kept in factors) are set and whose
\* imputation has not run
InitImpute ==
    /\ factors \in UNION {[1..k -> ImputeMatrices] : k \in 1..MaxMatrices}
    /\ driver = "CMTF_ALS"
    /\ decomposition = None
    /\ call = [kind |-> "none", n |-> 0, sweeps |-> 0, trace |-> <<>>]
    /\ X = 1
    /\ current_iteration = 0
    /\ max_its = 0
    /\ checkpoint_frequency = -1
    /\ convergence_tol = <<0, 1>>
    /\ prev_SSE = 0
    /\ rel_function_change = Inf
    /\ store = [attrs |-> <<>>, groups |-> <<>>]
    /\ writes = <<>>
    /\ loggers = <<>>
    /\ pc = "idle"
    /\ it = -1
    /\ loop_n = 0
    /\ T = NoArray
    /\ mode = 0
    /\ M = NoArray
    /\ out = None
    /\ step = "start"
    /\ weights_arg = None
    /\ kt = None
    /\ raised = "none"
    /\ calls = 0

\* self._init_impute_matrices_missing(impute_matrix_axis)
InitImputeMatricesMissing ==
    /\ step = "start"
    /\ \E axis \in UNION {[1..k -> ImputeAxes] : k \in 1..(MaxMatrices + 1)} :
        LET r == _init_impute_matrices_missing(factors, axis)
        IN  /\ factors' = r.coupled_matrices
            /\ raised' = r.raised
            /\ call' = [kind |-> "_init_impute_matrices_missing", n |-> 1, sweeps |-> 0,
                        trace |-> <<>>, axis |-> axis, coupled_matrices |-> factors]
    /\ step' = "_init_impute_matrices_missing"
    /\ calls' = calls + 1
    /\ UNCHANGED <<T, mode, M, out, weights_arg, kt>>
    /\ UNCHANGED <<driver, X, decomposition, current_iteration, max_its,
                   checkpoint_frequency, convergence_tol, prev_SSE, rel_function_change,
                   store, writes, loggers, pc, it, loop_n>>

NextImpute == InitImputeMatricesMissing

SpecImpute == InitImpute /\ [][NextImpute]_vars

----------------------------------------------------------------------------
(* cp.py (top level): the functional cp_als.  The arithmetic is exact on   *)
(* the inputs of the model: a target with one non-zero entry, which is     *)
(* exactly of rank one, and the factors its SVD initialisation gives.      *)

\* The squared Frobenius norm of X - pred
SquaredError(Xt, pred) ==
    Sum([p \in 1..Len(Xt.data) |-> (Xt.data[p] - pred.data[p]) * (Xt.data[p] - pred.data[p])])

\* _compute_V(factors, skip_mode): the entry-wise product of the Gram
\* matrices of the other factors
_compute_V(fs, skip_mode) ==
    LET rank == Cols(fs[1])
        gram(i) == matmul(MatT(fs[i]), fs[i])
    IN  [shape |-> <<rank, rank>>,
         data  |-> [p \in 1..(rank * rank) |->
                        Prod([j \in 1..(Len(fs) - 1) |->
                                gram(IF j <= skip_mode THEN j ELSE j + 1).data[p]])]]

\* np.linalg.solve(V.T, rhs).T where V has one row and one column
solve_1x1(V, product) ==
    [product EXCEPT !.data = [p \in DOMAIN @ |-> Quotient(@[p], V.data[1])]]

\* normalize_factor: (factor/norms, norms)
normalize_factor(factor) ==
    [factor |-> DivideColumns(factor, ColumnNorms(factor)), norms |-> ColumnNorms(factor)]

\* update_als_factor(X, factors, mode) before the normalisation
solved_als_factor(Xt, fs, m) ==
    CHOOSE new_factor \in {solve_1x1(V, matmul(unfolded, krp)) :
                            V \in {_compute_V(fs, m)},
                            unfolded \in {unfold(Xt, m)},
                            krp \in {khatri_rao(fs, Skip(m))}} : TRUE

update_als_factor(Xt, fs, m) ==
    CHOOSE r \in {normalize_factor(new_factor) : new_factor \in {solved_als_factor(Xt, fs, m)}} :
        TRUE

\* weights[axis] = norms
SetRow(weights, axis, norms) ==
    [weights EXCEPT !.data = [p \in DOMAIN @ |->
        IF (p - 1) \div Cols(weights) = axis THEN norms[((p - 1) % Cols(weights)) + 1]
        ELSE @[p]]]

\* update_als_factors(X, factors, weights): the loop over the axes from axis
RECURSIVE update_als_factors(_, _, _, _)
update_als_factors(Xt, fs, weights, axis) ==
    IF axis >= Ndim(Xt) THEN [factors |-> fs, weights |-> weights]
    ELSE CHOOSE result \in
            {update_als_factors(Xt, [fs EXCEPT ![axis + 1] = r.factor],
                                SetRow(weights, axis, r.norms), axis + 1) :
                r \in {update_als_factor(Xt, fs, axis)}} : TRUE

\* weights.prod(axis=0)
weights_prod(weights) ==
    [shape |-> <<Cols(weights)>>,
     data  |-> [r \in 1..Cols(weights) |->
                    Prod([a \in 1..Rows(weights) |-> MatEntry(weights, a - 1, r - 1)])]]

\* The values of the non-zero entry of the target
TargetValues == {-2, -1, 1, 2}

\* Three-way targets with one non-zero entry
Targets ==
    {[shape |-> sh, data |-> [p \in 1..Prod(sh) |-> IF p = q THEN s ELSE 0]] :
        sh \in [1..3 -> 1..MaxDim], q \in 1..(MaxDim * MaxDim * MaxDim), s \in TargetValues}

\* The index along mode n (from 0) of the non-zero entry of the target
NonZeroIndex(Xt, n) ==
    LET q == CHOOSE p \in 1..Len(Xt.data) : Xt.data[p] # 0
    IN  Unravel(q - 1, Xt.shape)[n + 1]

\* _initialize_factors_svd(X, 1): the first left singular vector of every
\* unfolding, which for a target with one non-zero entry is the unit vector
\* of that entry's index, of either sign
_initialize_factors_svd(Xt) ==
    {[n \in 1..Ndim(Xt) |->
        [shape |-> <<Xt.shape[n], 1>>,
         data  |-> [i \in 1..Xt.shape[n] |->
                        IF i - 1 = NonZeroIndex(Xt, n - 1) THEN signs[n] ELSE 0]]] :
        signs \in [1..Ndim(Xt) -> {-1, 1}]}

\* cp_als(X, 1, max_its, init='svd') up to the loop: factors and weights of
\* initialize_factors, the first pred and f_prev (kept squared in prev_SSE)
InitCpAls ==
    /\ T \in {t \in Targets : \E p \in 1..Len(t.data) : t.data[p] # 0}
    /\ factors \in _initialize_factors_svd(T)
    /\ M = [shape |-> <<Ndim(T), 1>>, data |-> [p \in 1..Ndim(T) |-> 1]]
    /\ out = ktensor(factors, weights_prod(M))
    /\ prev_SSE = SquaredError(T, out)
    /\ rel_function_change = Inf
    /\ loop_n \in 0..MaxIts
    /\ it = 0
    /\ pc = "loop"
    /\ step = "start"
    /\ call = [kind |-> "cp_als", n |-> 0, sweeps |-> 0, trace |-> <<>>]
    /\ driver = "cp_als"
    /\ decomposition = None
    /\ X = 1
    /\ current_iteration = 0
    /\ max_its = 0
    /\ checkpoint_frequency = -1
    /\ convergence_tol = <<0, 1>>
    /\ store = [attrs |-> <<>>, groups |-> <<>>]
    /\ writes = <<>>
    /\ loggers = <<>>
    /\ mode = 0
    /\ weights_arg = None
    /\ kt = None
    /\ raised = "none"
    /\ calls = 0

\* abs(REL_FUNCTION_CHANGE) < convergence_th with the default threshold:
\* on whole squared errors the change is below 1e-10 only when it is zero
cp_als_converged(change) == ~change.inf /\ change.den # 0 /\ change.num = 0

\* One pass of the loop of cp_als: update_als_factors, the new pred and
\* _check_convergence
CpAlsSweep ==
    /\ pc = "loop"
    /\ it < loop_n
    /\ ~cp_als_converged(rel_function_change)
    /\ \E r \in {update_als_factors(T, factors, M, 0)} :
        \E pred \in {ktensor(r.factors, weights_prod(r.weights))},
           new_factor \in {solved_als_factor(T, r.factors, Ndim(T) - 1)} :
            /\ factors' = r.factors
            /\ M' = r.weights
            /\ out' = pred
            /\ rel_function_change' = RelChange(prev_SSE, SquaredError(T, pred))
            /\ prev_SSE' = SquaredError(T, pred)
            /\ call' = [call EXCEPT !.sweeps = @ + 1,
                                    !.trace = <<[r.factors EXCEPT ![Ndim(T)] = new_factor]>>]
    /\ it' = it + 1
    /\ step' = "update_als_factors"
    /\ UNCHANGED <<T, mode, weights_arg, kt, raised, calls>>
    /\ UNCHANGED <<driver, X, decomposition, current_iteration, max_its,
                   checkpoint_frequency, convergence_tol, store, writes, loggers, pc, loop_n>>

\* The loop ends (range exhausted or break) and cp_als returns
CpAlsReturn ==
    /\ pc = "loop"
    /\ it >= loop_n \/ cp_als_converged(rel_function_change)
    /\ pc' = "returned"
    /\ step' = "cp_als_return"
    /\ UNCHANGED <<T, factors, mode, M, out, weights_arg, kt, raised, calls>>
    /\ UNCHANGED <<driver, X, decomposition, current_iteration, max_its,
                   checkpoint_frequency, convergence_tol, prev_SSE, rel_function_change,
                   store, writes, loggers, it, loop_n, call>>

NextCpAls == CpAlsSweep \/ CpAlsReturn

SpecCpAls == InitCpAls /\ [][NextCpAls]_vars

----------------------------------------------------------------------------
(* decomposition/cmtf2.py: the blocks CMTF_ALS._get_als_lhs and            *)
(* _get_als_rhs stack.  A block is named by what it is computed from; the  *)
(* numbers are list indices counted from 0.                                *)

\* The most coupled matrices of one CMTF_ALS
MaxCouplings == 3

\* The modes of the tensor
TensorModes == 0..2

\* [i for i, cplmode in enumerate(self.coupling_modes) if cplmode == mode]
RECURSIVE coupling_indices(_, _, _)
coupling_indices(coupling_modes, m, i) ==
    IF i >= Len(coupling_modes) THEN <<>>
    ELSE (IF coupling_modes[i + 1] = m THEN <<i>> ELSE <<>>)
            \o coupling_indices(coupling_modes, m, i + 1)

\* The loop "for i in indices[1:]" of _get_als_lhs from position p of
\* indices: the block of weights[i] and uncoupled_factor_matrices[indices[i]]
\* is appended, and indices[i] raises IndexError past the end of the list
RECURSIVE lhs_loop(_, _, _)
lhs_loop(indices, p, V) ==
    IF p > Len(indices) THEN [raised |-> "none", value |-> V]
    ELSE LET i == indices[p]
         IN  IF i >= Len(indices) THEN [raised |-> "IndexError", value |-> None]
             ELSE lhs_loop(indices, p + 1,
                           Append(V, [weights |-> i,
                                      uncoupled_factor_matrices |-> indices[i + 1]]))

\* CMTF_ALS._get_als_lhs(mode): the blocks stacked along axis 0
_get_als_lhs(coupling_modes, m) ==
    IF \E j \in 1..Len(coupling_modes) : coupling_modes[j] = m
    THEN LET indices == coupling_indices(coupling_modes, m, 0)
             V == lhs_loop(indices, 2, <<[weights |-> indices[1],
                                          uncoupled_factor_matrices |-> indices[1]]>>)
         IN  IF V.raised # "none" THEN V
             ELSE [raised |-> "none", value |-> <<"khatri_rao_product">> \o V.value]
    ELSE [raised |-> "none", value |-> <<"khatri_rao_product">>]

\* The loop "for i in indices[1:]" of _get_als_rhs: coupled_matrices[indices[i]]
RECURSIVE rhs_loop(_, _, _)
rhs_loop(indices, p, coupled_Y) ==
    IF p > Len(indices) THEN [raised |-> "none", value |-> coupled_Y]
    ELSE LET i == indices[p]
         IN  IF i >= Len(indices) THEN [raised |-> "IndexError", value |-> None]
             ELSE rhs_loop(indices, p + 1,
                           Append(coupled_Y, [coupled_matrices |-> indices[i + 1]]))

\* CMTF_ALS._get_als_rhs(mode): the blocks stacked along axis 1
_get_als_rhs(coupling_modes, m) ==
    IF \E j \in 1..Len(coupling_modes) : coupling_modes[j] = m
    THEN LET indices == coupling_indices(coupling_modes, m, 0)
             coupled_Y == rhs_loop(indices, 2, <<[coupled_matrices |-> indices[1]]>>)
         IN  IF coupled_Y.raised # "none" THEN coupled_Y
             ELSE [raised |-> "none", value |-> <<"unfolded_X">> \o coupled_Y.value]
    ELSE [raised |-> "none", value |-> <<"unfolded_X">>]

\* A CMTF_ALS after _init_fit: self.coupling_modes is kept in decomposition
InitStack ==
    /\ decomposition \in {[coupling_modes |-> cm] :
                            cm \in UNION {[1..k -> TensorModes] : k \in 1..MaxCouplings}}
    /\ driver = "CMTF_ALS"
    /\ call = [kind |-> "none", n |-> 0, sweeps |-> 0, trace |-> <<>>]
    /\ X = 1
    /\ current_iteration = 0
    /\ max_its = 0
    /\ checkpoint_frequency = -1
    /\ convergence_tol = <<0, 1>>
    /\ prev_SSE = 0
    /\ rel_function_change = Inf
    /\ store = [attrs |-> <<>>, groups |-> <<>>]
    /\ writes = <<>>
    /\ loggers = <<>>
    /\ pc = "idle"
    /\ it = -1
    /\ loop_n = 0
    /\ T = NoArray
    /\ factors = <<>>
    /\ mode = 0
    /\ M = NoArray
    /\ out = None
    /\ step = "start"
    /\ weights_arg = None
    /\ kt = None
    /\ raised = "none"
    /\ calls = 0

\* lhs = self._get_als_lhs(mode)
GetAlsLhs ==
    /\ step = "start"
    /\ \E m \in TensorModes :
        /\ mode' = m
        /\ out' = _get_als_lhs(decomposition.coupling_modes, m).value
        /\ raised' = _get_als_lhs(decomposition.coupling_modes, m).raised
    /\ step' = "_get_als_lhs"
    /\ calls' = calls + 1
    /\ UNCHANGED <<T, factors, M, weights_arg, kt>>
    /\ UNCHANGED fitVars

\* rhs = self._get_als_rhs(mode)
GetAlsRhs ==
    /\ step = "start"
    /\ \E m \in TensorModes :
        /\ mode' = m
        /\ out' = _get_als_rhs(decomposition.coupling_modes, m).value
        /\ raised' = _get_als_rhs(decomposition.coupling_modes, m).raised
    /\ step' = "_get_als_rhs"
    /\ calls' = calls + 1
    /\ UNCHANGED <<T, factors, M, weights_arg, kt>>
    /\ UNCHANGED fitVars

NextStack == GetAlsLhs \/ GetAlsRhs

SpecStack == InitStack /\ [][NextStack]_vars

----------------------------------------------------------------------------
(* C1: for every array T and every valid mode n (negative ones included),  *)
(* fold(unfold(T, n), n, T.shape) equals T, element for element.           *)
FoldInvertsUnfold == step = "fold" => out = T

FoldInvertsUnfoldWitness ==
    /\ step = "fold"
    /\ mode = -2
    /\ T.shape = <<2, 2, 2>>
    /\ M.shape = <<2, 4>>
    /\ M.data # T.data

(* C2: unflatten_factors(flatten_factors(factors), rank, sizes) is a list  *)
(* of the same length whose i-th matrix equals factors[i] exactly.         *)
UnflattenInvertsFlatten ==
    step = "unflatten" =>
        /\ Len(out) = Len(factors)
        /\ \A i \in 1..Len(factors) : out[i] = factors[i]

UnflattenInvertsFlattenWitness ==
    /\ step = "unflatten"
    /\ Len(factors) >= 3
    /\ \E i, j \in 1..Len(factors) : Rows(factors[i]) # Rows(factors[j])
    /\ Cols(factors[1]) >= 2
    /\ Len(M.data) = Sum([n \in 1..Len(factors) |-> Prod(factors[n].shape)])

(* C3: for a 3-way tensor and every mode in {0, 1, 2},                     *)
(* matrix_khatri_rao_product(X, factors, mode) equals                      *)
(* unfold(X, mode) @ khatri_rao(factors, skip=mode); the same holds on    *)
(* the generic path (a number of modes other than 3) for every valid mode. *)
MttkrpIsUnfoldTimesKhatriRao ==
    (step = "mttkrp" /\ (Ndim(T) = 3 => mode \in {0, 1, 2})) =>
        out = matmul(unfold(T, mode), khatri_rao(factors, Skip(mode)))

MttkrpIsUnfoldTimesKhatriRaoWitness ==
    /\ step = "mttkrp"
    /\ T.shape = <<2, 1, 2>>
    /\ mode = 1
    /\ Cols(factors[1]) = 2
    /\ out.shape = <<1, 2>>
    /\ \E p \in 1..Len(out.data) : out.data[p] # 0

\* The rows of the factors that take part in a Khatri-Rao product
KeptRows(fs, skip) ==
    LET rows == [n \in 1..Len(fs) |-> Rows(fs[n])]
    IN  IF skip.isNone THEN rows ELSE ListPop(rows, skip.v)

\* Entry (p, r) of the Khatri-Rao product as the definition gives it: the
\* product of the entries F_n[i_n, r] of the factors that take part, where
\* (i_n) is the multi-index of row p in C order
KhatriRaoEntry(fs, skip, p, r) ==
    LET kept == IF skip.isNone THEN fs ELSE ListPop(fs, skip.v)
        idx  == Unravel(p, KeptRows(fs, skip))
    IN  Prod([n \in 1..Len(kept) |-> MatEntry(kept[n], idx[n], r)])

SkipOf(s) == IF s = "khatri_rao" THEN NoSkip ELSE Skip(mode)

(* C5: khatri_rao(factors, skip=s) has R columns and as many rows as the   *)
(* product of the row counts of the factors other than factor s (all of    *)
(* them when skip is None), its entries are the products of the entries of *)
(* those factors alone, and the caller's list of factors is not modified.  *)
KhatriRaoShape ==
    [][step' \in {"khatri_rao", "khatri_rao_skip"} =>
        /\ out'.shape = <<Prod(KeptRows(factors, SkipOf(step'))), Cols(factors[1])>>
        /\ \A p \in 0..(Rows(out') - 1), r \in 0..(Cols(out') - 1) :
              MatEntry(out', p, r) = KhatriRaoEntry(factors, SkipOf(step'), p, r)
        /\ factors' = factors]_vars

KhatriRaoShapeWitness ==
    /\ step = "khatri_rao_skip"
    /\ Len(factors) = 3
    /\ mode = 1
    /\ Rows(factors[1]) = 2 /\ Rows(factors[2]) = 2 /\ Rows(factors[3]) = 1
    /\ out.shape = <<2, Cols(factors[1])>>

\* Entry idx of the tensor a Kruskal decomposition stands for: the sum over
\* the components r of weights[r] times the product of F_n[idx_n, r]
KruskalEntry(fs, w, idx) ==
    Sum([r \in 1..Cols(fs[1]) |->
            w[r] * Prod([n \in 1..Len(fs) |-> MatEntry(fs[n], idx[n], r - 1)])])

IsKruskalTensor(A, fs, w) ==
    LET shape == [n \in 1..Len(fs) |-> Rows(fs[n])]
    IN  /\ A.shape = shape
        /\ Len(A.data) = Prod(shape)
        /\ \A p \in 1..Prod(shape) : A.data[p] = KruskalEntry(fs, w, Unravel(p - 1, shape))

(* C4: construct_tensor() and ktensor return the array whose entry at      *)
(* (i_0, ..., i_{N-1}) is the sum over r of weights[r] times the product   *)
(* over the modes n of factor[n][i_n, r], for 2..MaxModes modes and every  *)
(* shape: the row order of khatri_rao matches the axis order of fold.      *)
ConstructTensorEntries ==
    /\ step = "construct_tensor" => IsKruskalTensor(out, kt.factor_matrices, kt.weights.data)
    /\ step = "ktensor" =>
            IsKruskalTensor(out, factors,
                            IF weights_arg = None THEN ones(Cols(factors[1])).data
                            ELSE weights_arg.data)

ConstructTensorEntriesWitness ==
    /\ step = "construct_tensor"
    /\ calls = 1
    /\ out.shape = <<2, 1, 2, 2>>
    /\ kt.rank = 2
    /\ kt.weights.data = <<2, 3>>
    /\ \E p, q \in 1..Len(out.data) :
            out.data[p] # 0 /\ out.data[q] # 0 /\ out.data[p] # out.data[q]

(* C6: normalize_components() leaves the represented tensor unchanged for  *)
(* every starting weight vector: afterwards every factor column has unit   *)
(* norm, the new weights[r] is the old weights[r] times the product of the *)
(* old column norms, and construct_tensor() returns the same array before  *)
(* and after (so a second call changes nothing).                           *)
NormalizeKeepsTensor ==
    [][step' = "normalize" =>
        /\ \A n \in 1..Len(kt'.factor_matrices) :
              \A r \in 1..kt.rank : ColumnNorms(kt'.factor_matrices[n])[r] = 1
        /\ \A r \in 1..kt.rank :
              kt'.weights.data[r] =
                kt.weights.data[r] *
                  Prod([n \in 1..Len(kt.factor_matrices) |-> ColumnNorms(kt.factor_matrices[n])[r]])
        /\ construct_tensor(kt') = construct_tensor(kt)]_vars

(* C7: constructing a KruskalTensor from factor matrices whose column      *)
(* counts differ fails with a ValueError and produces no object; every     *)
(* KruskalTensor that exists has factor matrices of exactly rank columns   *)
(* and a weight vector of length rank.                                     *)
ConstructRejectsMismatch ==
    /\ (step = "construct" /\ \E i \in 1..Len(factors) : Cols(factors[i]) # Cols(factors[1]))
            => (raised = "ValueError" /\ kt = None)
    /\ kt # None =>
            /\ \A i \in 1..Len(kt.factor_matrices) : Cols(kt.factor_matrices[i]) = kt.rank
            /\ Len(kt.weights.data) = kt.rank

(* C8: every call of fit(X, ...) resets the iteration counter to 0, then   *)
(* sets the target X, then initialises the components, and only then runs  *)
(* the sweep loop; so the initialisation of the components reads the X     *)
(* that was passed to this call of fit.                                    *)
FitStepOrder ==
    call.kind = "fit" =>
        /\ call.trace = <<"reset_iteration", "set_target", "init_components">>
        /\ decomposition.fit = call.n
        /\ decomposition.init_X = X

(* C9: for every max_its >= 0 and every convergence_tol, a call of fit     *)
(* returns normally after at most max_its sweeps, and it has stopped       *)
(* before max_its sweeps only when the relative change                     *)
(* (prevError - currError)/prevError computed after its last sweep is      *)
(* below convergence_tol.  Stated for a decomposer without checkpointing   *)
(* (checkpoint_frequency = -1, the default), where the store plays no part.*)
FitReturnsWithinMaxIts ==
    (/\ call.kind = "fit"
     /\ driver # "Legacy"
     /\ checkpoint_frequency = -1
     /\ pc # "loop")
        => /\ pc = "returned"
           /\ raised = "none"
           /\ call.sweeps <= max_its
           /\ call.sweeps < max_its =>
                /\ ~rel_function_change.inf
                /\ rel_function_change.num * convergence_tol[2]
                      < convergence_tol[1] * rel_function_change.den

(* C10: with checkpoint_frequency > 0, when fit or continue_fit returns,   *)
(* the decomposition reached by the last completed sweep has been written  *)
(* to the checkpoint store exactly once, whether the loop ended by         *)
(* reaching max_its or by the convergence break.                           *)
LastSweepCheckpointedOnce ==
    (/\ checkpoint_frequency > 0
     /\ driver # "Legacy"
     /\ pc = "returned"
     /\ decomposition.sweeps >= 1)
        => Cardinality({i \in DOMAIN writes : writes[i].decomposition = decomposition}) = 1

(* C11: after any sequence of fit and continue_fit calls of one decomposer *)
(* writing to one checkpoint file, checkpoint_its lists without duplicates *)
(* exactly the iterations that have a group, in the order written,         *)
(* final_iteration is its last entry, and store_checkpoint never tries to  *)
(* create a group whose name exists already.                               *)
StoreConsistent ==
    /\ raised # "ValueError"
    /\ IF store.attrs = <<>>
       THEN DOMAIN store.groups = {}
       ELSE LET its == store.attrs.checkpoint_its
            IN  /\ \A i, j \in DOMAIN its : its[i] = its[j] => i = j
                /\ {its[i] : i \in DOMAIN its} = DOMAIN store.groups
                /\ its = [i \in DOMAIN writes |-> writes[i].iteration]
                /\ store.attrs.final_iteration = its[Len(its)]

(* C12: continue_fit resumes without re-initialising: when its first sweep *)
(* starts, the decomposition, the target X, the iteration counter, the     *)
(* previous error and the relative change have the values they had when    *)
(* the preceding call returned; only max_its may have changed.             *)
ContinueFitResumes ==
    [][(pc = "returned" /\ call'.kind = "continue_fit" /\ call'.n = call.n + 1) =>
        /\ pc' = "loop"
        /\ decomposition' = decomposition
        /\ X' = X
        /\ current_iteration' = current_iteration
        /\ prev_SSE' = prev_SSE
        /\ rel_function_change' = rel_function_change]_vars

ContinueFitResumesWitness ==
    /\ call.kind = "continue_fit"
    /\ pc = "loop"
    /\ call.sweeps = 1
    /\ decomposition.sweeps = 3
    /\ current_iteration = 3
    /\ ~rel_function_change.inf

(* C13: throughout fit and continue_fit of CP_ALS each entry of            *)
(* decomposition.factor_matrices stays the same array object: every        *)
(* per-mode update and every normalisation writes into the existing array  *)
(* and never rebinds the list entry, so a reference taken before a sweep   *)
(* shows the updated values after it.                                      *)
SweepKeepsFactorObjects ==
    [][step' = "sweep" /\ calls' = calls + 1 => kt'.ids = kt.ids]_vars

(* C14: update_decomposition of a sub-problem assigned to mode m (RLS,     *)
(* ADMMSubproblem) changes only factor_matrices[m]: every other factor     *)
(* matrix and the weights have the same values after the call as before,   *)
(* and the rank and all factor shapes are unchanged.                       *)
UpdateDecompositionFrame ==
    [][(step' \in {"RLS", "ADMM"} /\ calls' = calls + 1) =>
        /\ \A n \in 1..Len(kt.factor_matrices) :
              n # mode' + 1 => kt'.factor_matrices[n] = kt.factor_matrices[n]
        /\ kt'.weights = kt.weights
        /\ kt'.rank = kt.rank
        /\ Len(kt'.factor_matrices) = Len(kt.factor_matrices)
        /\ \A n \in 1..Len(kt.factor_matrices) :
              kt'.factor_matrices[n].shape = kt.factor_matrices[n].shape
        /\ kt'.ids = kt.ids]_vars

UpdateDecompositionFrameWitness ==
    /\ step = "ADMM"
    /\ calls = 1
    /\ mode = 1
    /\ Len(kt.factor_matrices) = 3
    /\ kt.factor_matrices[2].shape = <<2, 2>>
    /\ kt.factor_matrices[2] = maximum0(LstsqSolution(kt, 2))
    /\ kt.factor_matrices[2] # LstsqSolution(kt, 2)
    /\ kt.factor_matrices[1] = GenFactor(2, 2, 0)
    /\ kt.factor_matrices[3] = GenFactor(2, 2, 2)

(* C15: in CMTF_ALS, after every ALS sweep, for every choice of per-mode   *)
(* non-negativity constraints and with or without the weight penalty, the  *)
(* first factor of decomposition.matrices[i] is the same object as, and so *)
(* has the same values as, the tensor's factor matrix of mode              *)
(* coupling_modes[i].                                                      *)
CoupledFactorsShared ==
    \A i \in 1..Len(decomposition.matrices) :
        LET m == decomposition.coupling_modes[i] + 1
        IN  /\ decomposition.matrices[i].ids[1] = decomposition.tensor.ids[m]
            /\ decomposition.matrices[i].factor_matrices[1] =
                    decomposition.tensor.factor_matrices[m]

(* C16: SVD initialisation raises ValueError if and only if rank is        *)
(* greater than the smallest mode size of the target; when it raises, no   *)
(* new decomposition is installed, and when it succeeds every factor       *)
(* matrix has exactly rank columns and as many rows as its mode of X.      *)
SvdInitRank ==
    [][(step' = "init_components" /\ call'.n = call.n + 1 /\ call'.init = "svd"
            /\ call'.initial_decomposition = None) =>
        /\ raised' \in {"none", "ValueError"}
        /\ (raised' = "ValueError") <=> (call.rank > Min(X'.shape))
        /\ raised' = "ValueError" => decomposition' = decomposition
        /\ raised' = "none" =>
            /\ decomposition' # None
            /\ Len(decomposition'.factor_matrices) = Ndim(X')
            /\ \A i \in 1..Ndim(X') :
                    decomposition'.factor_matrices[i].shape = <<X'.shape[i], call.rank>>]_vars

SvdInitRankWitness ==
    /\ step = "init_components"
    /\ call.init = "svd"
    /\ call.n = 2
    /\ call.rank = 2
    /\ raised = "ValueError"
    /\ X.shape = <<2, 1, 2>>
    /\ decomposition # None
    /\ Len(decomposition.factor_matrices) = 2
    /\ decomposition.factor_matrices[1].shape = <<2, 2>>

(* C17: when the init method is not 'precomputed' (for example 'random' or *)
(* 'svd') and an initial_decomposition is nevertheless passed to fit, the  *)
(* passed decomposition is ignored: the components are initialised by the  *)
(* configured method and fit goes on.                                      *)
InitialDecompositionIgnored ==
    (/\ step = "init_components"
     /\ call.init \in {"random", "svd"}
     /\ call.initial_decomposition # None)
        => /\ raised # "Warning"
           /\ LET self == [X |-> X, rank |-> call.rank, init |-> call.init,
                           decomposition |-> None]
                  r == BaseCP_init_components(self, None)
              IN  raised = r.raised /\ (r.raised = "none" => decomposition = r.decomposition)

(* C18: load_checkpoint(path, load_it) installs as the decomposition the   *)
(* state stored in the group of iteration load_it, or of the most recently *)
(* written checkpoint when load_it is None, and sets the iteration counter *)
(* to that iteration; it raises ValueError when the store records no       *)
(* checkpoint at all or has no group for the requested iteration.  Stated  *)
(* for stored components that pass the validation of rank and shape.       *)
LoadCheckpointInstalls ==
    [][(call'.kind = "load_checkpoint" /\ call.kind # "load_checkpoint" /\ call'.valid) =>
        IF writes = <<>>
        THEN raised' = "ValueError"
        ELSE LET iteration == IF call'.load_it.isNone
                              THEN writes[Len(writes)].iteration
                              ELSE call'.load_it.v
             IN  IF iteration \notin DOMAIN store.groups
                 THEN raised' = "ValueError"
                 ELSE /\ raised' = "none"
                      /\ current_iteration' = iteration
                      /\ decomposition' = store.groups[iteration]]_vars

(* C19: in every run of the fit loop each logger's log is called exactly   *)
(* once per completed sweep, after the sweep's factors and convergence     *)
(* tracker are updated and before the iteration counter is incremented,    *)
(* and each logger's write_to_hdf5_group is called exactly once for every  *)
(* checkpoint that is written, periodic or final.                          *)
LoggersCalledOncePerSweepAndCheckpoint ==
    [][\A i \in DOMAIN loggers :
        /\ IF call'.n = call.n /\ call'.sweeps = call.sweeps + 1
           THEN /\ loggers'[i].log = loggers[i].log + 1
                /\ loggers'[i].shown =
                        [current_iteration |-> current_iteration,
                         decomposition |-> decomposition',
                         rel_function_change |-> rel_function_change']
           ELSE /\ loggers'[i].log = loggers[i].log
                /\ loggers'[i].shown = loggers[i].shown
        /\ loggers'[i].write_to_hdf5_group - loggers[i].write_to_hdf5_group
                = Len(writes') - Len(writes)]_vars

LoggersCalledOncePerSweepAndCheckpointWitness ==
    /\ pc = "returned"
    /\ call.sweeps = 3
    /\ Len(writes) = 2
    /\ Len(loggers) = NumLoggers
    /\ \A i \in DOMAIN loggers :
        /\ loggers[i].log = 3
        /\ loggers[i].shown.current_iteration = 2
        /\ loggers[i].shown.decomposition.sweeps = 3
        /\ loggers[i].write_to_hdf5_group = 2

(* C20: a failure while writing a checkpoint or a log during the fit loop  *)
(* is not fatal: the in-memory decomposition is exactly what the sweep     *)
(* produced, the iteration counter is still advanced for that sweep, and   *)
(* the loop goes on to the next sweep.                                     *)
CheckpointFailureNotFatal ==
    [][(call'.n = call.n /\ call'.sweeps = call.sweeps + 1) =>
        /\ decomposition' = [decomposition EXCEPT !.sweeps = @ + 1]
        /\ current_iteration' = current_iteration + 1
        /\ pc' = "loop"]_vars

\* diag(C[k]) for the row k (counted from 0) of C
Diag(C, k) ==
    [shape |-> <<Cols(C), Cols(C)>>,
     data  |-> [p \in 1..(Cols(C) * Cols(C)) |->
                    IF (p - 1) \div Cols(C) = (p - 1) % Cols(C)
                    THEN MatEntry(C, k, (p - 1) % Cols(C))
                    ELSE 0]]

(* C21: for every slice k of an evolving tensor, ragged slices included,   *)
(* the tensor can be constructed and construct_slice(k) has the shape of   *)
(* slice k and equals A @ diag(C[k]) @ B_k.T.                              *)
SlicesAreReconstructed ==
    step = "construct_slices" =>
        /\ raised = "none"
        /\ kt # None
        /\ Len(out) = Len(factors[2])
        /\ \A k \in 1..Len(factors[2]) :
            /\ out[k].shape = <<Rows(factors[1]), Rows(factors[2][k])>>
            /\ out[k] = matmul(matmul(factors[1], Diag(factors[3], k - 1)),
                               MatT(factors[2][k]))

(* C27: for a 3-way tensor X and every negative mode m in {-1, -2, -3},    *)
(* matrix_khatri_rao_product(X, factors, m) returns the same matrix as     *)
(* matrix_khatri_rao_product(X, factors, m + 3); it never returns without  *)
(* a result.                                                               *)
MttkrpNegativeMode ==
    (step = "mttkrp" /\ Ndim(T) = 3 /\ mode < 0) =>
        /\ out # None
        /\ out = matrix_khatri_rao_product(T, factors, mode + 3)

(* C28: a load_checkpoint call that fails (the store has no checkpoints,   *)
(* the requested iteration's group is absent, or the loaded components     *)
(* fail the validation of rank and shape) leaves the decomposer unchanged: *)
(* the iteration counter and the decomposition keep the values they had    *)
(* before the call.                                                        *)
FailedLoadLeavesDecomposer ==
    [][(call'.kind = "load_checkpoint" /\ call.kind # "load_checkpoint"
            /\ raised' # "none") =>
        /\ current_iteration' = current_iteration
        /\ decomposition' = decomposition]_vars

(* C22: the sweep-control loops of CP_ALS and BlockParafac2 are the same   *)
(* state machine: given the same max_its, the same convergence_tol and the *)
(* same sequence of per-sweep error values, over any sequence of fit and   *)
(* continue_fit calls both drivers perform the same number of sweeps in    *)
(* each call and stop for the same reason.                                 *)
SameSweepControl ==
    (call.kind # "none" /\ pc[1] # "loop" /\ pc[2] # "loop") =>
        /\ call.sweeps[1] = call.sweeps[2]
        /\ call.stopped[1] = call.stopped[2]

(* C23: when ADMMSubproblem.update_decomposition returns, on every exit    *)
(* path (tolerance reached before the first inner iteration, tolerance     *)
(* reached later, or max_it exhausted, max_it = 0 included), the assigned  *)
(* factor matrix equals the auxiliary variable and all its entries are     *)
(* >= 0; the inner loop performs at most max_it proximal updates, and each *)
(* performed iteration applies, in order, the main-variable update toward  *)
(* aux - dual, the projection of main + dual, and dual += main - aux.      *)
AdmmReturnsProjectedAux ==
    [][/\ (pc = "loop" /\ it' = it + 1) =>
            LET fm == kt'.factor_matrices[mode + 1]
            IN  /\ it' < loop_n
                /\ \E choice \in ProxChoices :
                        fm = prox_reg_lstsq(LstsqSolution(kt, mode + 1),
                                            MatSub(M, out), choice)
                /\ M' = maximum0(MatAdd(fm, out))
                /\ out' = MatAdd(out, MatSub(fm, M'))
       /\ (pc = "loop" /\ pc' = "returned") =>
            LET fm == kt'.factor_matrices[mode + 1]
            IN  /\ fm = M'
                /\ \A p \in DOMAIN fm.data : fm.data[p] >= 0
                /\ it + 1 <= loop_n]_vars

AdmmReturnsProjectedAuxWitness ==
    /\ step = "ADMM_return"
    /\ pc = "returned"
    /\ loop_n = 2
    /\ it = 1
    /\ kt.factor_matrices[mode + 1] = M
    /\ kt.factor_matrices[mode + 1] # LstsqSolution(kt, mode + 1)
    /\ \E p \in DOMAIN out.data : out.data[p] # 0
    /\ \E p \in DOMAIN M.data : M.data[p] > 0

(* C24: Parafac2ADMM.update_decomposition ends its inner loop as soon as   *)
(* the duality gap, the sum over the slices k of ||P_k @ B - aux_k||^2, is *)
(* below tol: it performs max_it inner iterations only if the gap never    *)
(* drops below tol, and fewer otherwise.                                   *)
Pf2AdmmStopsAtGap ==
    step = "Parafac2ADMM_return" =>
        \A i \in 1..(Len(call.trace) - 1) : ~call.trace[i]

\* The projections are recomputed, each from A, B, C and its own slice, and
\* the projected array is recomputed from the new projections
ProjectionsThenProjected ==
    /\ \A k \in 1..X :
        /\ decomposition'.projection_matrices[k].version
                = decomposition.projection_matrices[k].version + 1
        /\ decomposition'.projection_matrices[k].args
                = <<Id(decomposition.A), Id(decomposition.blueprint_B),
                    Id(decomposition.C), Id(DataSlice(k - 1))>>
    /\ M' # None
    /\ M' # M
    /\ M'.args = [k \in 1..X |-> Id(decomposition'.projection_matrices[k])]
                    \o [k \in 1..X |-> Id(DataSlice(k - 1))]

\* The factor was solved in this call against the new projected array
SolvedAgainstProjected(old, new) ==
    /\ new.version = old.version + 1
    /\ \E i \in DOMAIN new.args : new.args[i] = Id(M')

(* C25: one call of Parafac2RLS.update_decomposition with                  *)
(* should_update_projections=True first recomputes every slice projection  *)
(* matrix P_k (each from A, B, C and X_k only), then recomputes the        *)
(* projected array from the new projections, and then re-solves the        *)
(* blueprint B against that projected array; A and C are not changed.      *)
Pf2RlsSolvesBlueprint ==
    [][(step' = "Parafac2RLS" /\ calls' = calls + 1 /\ call'.should_update_projections) =>
        /\ ProjectionsThenProjected
        /\ SolvedAgainstProjected(decomposition.blueprint_B, decomposition'.blueprint_B)
        /\ decomposition'.A = decomposition.A
        /\ decomposition'.C = decomposition.C]_vars

Pf2RlsSolvesBlueprintWitness ==
    /\ step = "Parafac2RLS"
    /\ calls = 2
    /\ call.should_update_projections
    /\ call.projected_X # None
    /\ X = 3
    /\ decomposition.blueprint_B.version = 2
    /\ decomposition.projection_matrices[3].version = 2
    /\ decomposition.projection_matrices[3].args[2] = <<"blueprint_B", 0, 1>>
    /\ M.version = 2
    /\ decomposition.A.version = 0

\* C25 as stated: ... and then re-solves all three of A, the blueprint B and
\* C against that projected array.
Pf2RlsSolvesAllThree ==
    [][(step' = "Parafac2RLS" /\ calls' = calls + 1 /\ call'.should_update_projections) =>
        /\ ProjectionsThenProjected
        /\ SolvedAgainstProjected(decomposition.A, decomposition'.A)
        /\ SolvedAgainstProjected(decomposition.blueprint_B, decomposition'.blueprint_B)
        /\ SolvedAgainstProjected(decomposition.C, decomposition'.C)]_vars

(* C26: in CMTF_ALS the per-matrix imputation axes accept 0, 1 and None:   *)
(* an entry None leaves that coupled matrix un-imputed while the others    *)
(* are mean-imputed along their axis, a list whose length differs from the *)
(* number of coupled matrices is rejected with an error, and only values   *)
(* outside 0, 1 and None are rejected with ValueError.                     *)
ImputeAxesAcceptNone ==
    step = "_init_impute_matrices_missing" =>
        LET axis == call.axis
            before == call.coupled_matrices
        IN  /\ Len(axis) # Len(before) => raised # "none"
            /\ Len(axis) = Len(before) =>
                /\ (raised = "ValueError") <=> ~axes_valid_with_none(axis)
                /\ axes_valid_with_none(axis) =>
                    /\ raised = "none"
                    /\ \A i \in 1..Len(before) :
                        factors[i] = IF axis[i].isNone THEN before[i]
                                     ELSE mean_impute(before[i], axis[i].v)

(* C29: in the functional cp_als the weight bookkeeping preserves the      *)
(* fitted model: after every sweep the tensor rebuilt from the unit-norm   *)
(* factors and weights.prod(axis=0) equals the tensor rebuilt from the     *)
(* unit-norm factors of the other modes and the last-solved factor before  *)
(* its normalisation, so for a target of rank one the reconstruction after *)
(* a sweep equals the target.                                              *)
CpAlsWeightsPreserveModel ==
    step = "update_als_factors" =>
        /\ ktensor(factors, weights_prod(M)) = ktensor(call.trace[1], None)
        /\ out = T

\* The blocks of the matrices j coupled to mode m, each once and in
\* increasing j
RECURSIVE CoupledBlocks(_, _, _, _)
CoupledBlocks(coupling_modes, m, j, lhs) ==
    IF j >= Len(coupling_modes) THEN <<>>
    ELSE (IF coupling_modes[j + 1] # m THEN <<>>
          ELSE IF lhs THEN <<[weights |-> j, uncoupled_factor_matrices |-> j]>>
          ELSE <<[coupled_matrices |-> j]>>)
            \o CoupledBlocks(coupling_modes, m, j + 1, lhs)

(* C30: in CMTF_ALS, for every coupling_modes list (several matrices may   *)
(* be coupled to the same mode, at arbitrary positions) and every coupled  *)
(* mode m, _get_als_lhs stacks after the Khatri-Rao block the weighted     *)
(* uncoupled factor of exactly the matrices j with coupling_modes[j] == m, *)
(* each once and in increasing j, _get_als_rhs stacks after unfold(X, m)   *)
(* exactly those coupled matrices in the same order, and neither raises an *)
(* index error.                                                            *)
StackedBlocksMatchCouplings ==
    (step \in {"_get_als_lhs", "_get_als_rhs"}
        /\ \E j \in 1..Len(decomposition.coupling_modes) : decomposition.coupling_modes[j] = mode)
    => /\ raised = "none"
       /\ step = "_get_als_lhs" =>
            out = <<"khatri_rao_product">>
                    \o CoupledBlocks(decomposition.coupling_modes, mode, 0, TRUE)
       /\ step = "_get_als_rhs" =>
            out = <<"unfolded_X">>
                    \o CoupledBlocks(decomposition.coupling_modes, mode, 0, FALSE)

====
